---- MODULE Spec2Model ----
(***************************************************************************)
(* A model of the unified memory system of src/unified_memory_system.py:   *)
(* UnifiedMemoryEntry, UnifiedMemoryIndex and UnifiedMemorySystem (the     *)
(* tiered store, the duplicate check, retrieval and the periodic cleanup), *)
(* with the start-up load over an existing database, calls made while the  *)
(* database cannot be opened, and the export and import of                 *)
(* src/memory_integration_bridge.py and ConversationalMemoryAdapter.       *)
(*                                                                         *)
(* Conventions                                                             *)
(*  - importance and the relevance score are fixed-point numbers in        *)
(*    hundredths (0.7 is 70); float rounding is not modelled.              *)
(*  - time.time() is the variable now, in hours; the epoch lies far        *)
(*    enough in the past that now - 30 days is positive (Epoch0).          *)
(*  - a content string is a sequence of one-character tokens separated by  *)
(*    blanks: letters are words of \b\w+\b, "!" is punctuation.            *)
(*  - a dict (hot_memories, warm_memories) is the sequence of its values   *)
(*    in insertion order; the sqlite table is a function from id to row.   *)
(*  - an id is the tuple md5 is applied to (md5 is taken to be             *)
(*    injective); the order of two md5 digests is left open.               *)
(***************************************************************************)
EXTENDS Integers, Sequences, FiniteSets, TLC

VARIABLES
    now,              \* time.time(), hours
    hot_memories,     \* UnifiedMemorySystem.hot_memories
    warm_memories,    \* UnifiedMemorySystem.warm_memories
    db,               \* the rows of table memories, by id
    index,            \* UnifiedMemorySystem.index
    operation_count,  \* UnifiedMemorySystem.operation_count
    calls,            \* how many store / retrieve calls, clock steps and other steps were made
    last,             \* the latest store_memory / retrieve_memories call and what it returned
    file,             \* the records of the export file
    threads           \* UnifiedMemorySystem._lock and the threads that are inside a call

vars == <<now, hot_memories, warm_memories, db, index, operation_count, calls, last, file, threads>>

----------------------------------------------------------------------------
(* Bounds of the model *)

MaxStores == 3
MaxRetrieves == 1
MaxTicks == 1
NearMaxStores == 4
NearMaxTicks == 2
TierMaxStores == 3
TierMaxRetrieves == 1
RankMaxStores == 2
RankMaxRetrieves == 6
RankMaxCalls == 8
RankMaxTicks == 2
ReadMaxStores == 3
ReadMaxRetrieves == 2
SweepMaxStores == 5
IoMaxStores == 3
IoMaxRetrieves == 2
LoadMaxStores == 3
LoadMaxRestarts == 2
RoundMaxStores == 3
RoundMaxSteps == 3
ImportMaxStores == 1
ImportMaxSteps == 2
SweepMaxRetrieves == 3
SweepMaxCalls == 6
NumThreads == 2
ThreadMaxStores == 3
ThreadMaxRetrieves == 1
ThreadMaxTicks == 1
FairMaxStores == 2
FairMaxRetrieves == 1
FairMaxTicks == 1
SearchMaxStores == 3
SearchMaxCalls == 1
SearchMaxTicks == 2
PlaceMaxStores == 4
PlaceMaxRetrieves == 1
PlaceMaxTicks == 1
FetchMaxStores == 3
FetchMaxRetrieves == 1
FetchMaxCalls == 1
IndexMaxStores == 2
IndexMaxCalls == 4
ManyMaxStores == 22
LostMaxStores == 4
LostMaxRetrieves == 1
\* constructor arguments of UnifiedMemorySystem, chosen small
max_hot_memories == 2
max_warm_memories == 1
cleanup_interval == 2

(* Program constants *)

HotImportance == 70
WarmImportance == 40
DuplicateMaxResults == 20
RetentionHours == 720
DeleteImportance == 30
DeleteFrequency == 2
ColdImportance == 40
RecentHours == 24
WeekHours == 168
RecentBoost == 20
WeekBoost == 10
FrequentAccesses == 5
FrequentBoost == 10
ContextWeight == 20
EmotionalWeight == 30
MaxScore == 100
Epoch0 == 1000

----------------------------------------------------------------------------
(* Value sets *)

MemoryType == {"conversation", "relationship", "personality", "goal", "event"}
HotTypes == {"conversation", "relationship"}
StorageTier == {"hot", "warm", "cold"}
Categories == {"dialogue", "general"}
TagSet == {"t1", "t2"}
WordChars == {"a", "b", "c", "d", "e", "f"}

\* str.lower() on one token
Lower(tok) == IF tok = "A" THEN "a" ELSE tok

ContentA == <<"a", "b", "c", "d", "e">>
ContentB == <<"a", "b", "c", "d", "e", "f">>
ContentC == <<"a", "b", "c", "d">>
ContentU == <<"A", "b", "c", "d", "e", "!">>
ContentP == <<"!">>
ContentF == <<"f">>

NoId == <<>>

Range(s) == {s[i] : i \in DOMAIN s}

Min(a, b) == IF a < b THEN a ELSE b
Max(a, b) == IF a > b THEN a ELSE b

\* set(re.findall(r'\b\w+\b', str(content).lower()))
Words(content) == {Lower(content[i]) : i \in DOMAIN content} \cap WordChars

\* hashlib.md5(f"{content_str}_{memory_type.value}_{category}_{time.time()}")
MemoryId(content, memory_type, category, t) == <<content, memory_type, category, t>>

\* UnifiedMemoryEntry(...) as store_memory builds it; the other fields keep
\* their dataclass defaults
NewEntry(content, memory_type, category, importance, tags, t) ==
    [id |-> MemoryId(content, memory_type, category, t),
     content |-> content,
     memory_type |-> memory_type,
     category |-> category,
     importance |-> importance,
     timestamp |-> t,
     tags |-> tags,
     frequency_accessed |-> 0,
     last_accessed |-> 0,
     emotional_weight |-> 0,
     plot_relevance |-> 0,
     relationship_relevance |-> 0,
     storage_tier |-> "hot"]

\* UnifiedMemoryEntry.update_access
update_access(m, t) ==
    [m EXCEPT !.frequency_accessed = @ + 1, !.last_accessed = t]

\* how many words of the query context occur in str(content).lower()
ContextMatches(m, query) ==
    Cardinality({i \in DOMAIN query :
        Lower(query[i]) \in {Lower(m.content[j]) : j \in DOMAIN m.content}})

\* what calculate_relevance_score adds to the importance: the boosts for a
\* recent entry, a frequently accessed one, an emotional one, and for the
\* words of the query context found in the content
Boosts(m, query, t) ==
    LET age_hours == t - m.timestamp
        recent == IF age_hours < RecentHours THEN RecentBoost
                  ELSE IF age_hours < WeekHours THEN WeekBoost ELSE 0
        frequent == IF m.frequency_accessed > FrequentAccesses THEN FrequentBoost ELSE 0
        emotional == (m.emotional_weight * EmotionalWeight) \div 100
        context == IF Len(query) > 0
                   THEN (ContextMatches(m, query) * ContextWeight) \div Len(query)
                   ELSE 0
    IN  recent + frequent + emotional + context

\* UnifiedMemoryEntry.calculate_relevance_score
calculate_relevance_score(m, query, t) ==
    Min(MaxScore, m.importance + Boosts(m, query, t))

----------------------------------------------------------------------------
(* dict helpers: a dict is the sequence of its values in insertion order *)

Keys(d) == {d[i].id : i \in DOMAIN d}

HasKey(d, id) == \E i \in DOMAIN d : d[i].id = id

Get(d, id) == d[CHOOSE i \in DOMAIN d : d[i].id = id]

\* d[m.id] = m : an existing key keeps its position
Put(d, m) ==
    IF HasKey(d, m.id)
    THEN [i \in DOMAIN d |-> IF d[i].id = m.id THEN m ELSE d[i]]
    ELSE Append(d, m)

\* del d[id]
Del(d, id) == SelectSeq(d, LAMBDA x : x.id # id)

----------------------------------------------------------------------------
(* UnifiedMemoryIndex *)

EmptyIndex ==
    [type_index |-> [k \in MemoryType |-> <<>>],
     category_index |-> [c \in Categories |-> <<>>],
     tag_index |-> [t \in TagSet |-> <<>>],
     content_index |-> [w \in WordChars |-> <<>>],
     timestamp_index |-> <<>>,
     importance_index |-> <<>>]

\* list.append followed by list.sort(reverse=True) on (key, id) tuples: the new
\* tuple goes behind the tuples whose key is not smaller. Tuples of equal key
\* are ordered by their md5 ids, which the model leaves open: readers of the
\* list treat tuples of equal key as unordered (see TopRecent).
InsertSorted(lst, pair) ==
    LET n == Cardinality({i \in DOMAIN lst : lst[i][1] >= pair[1]})
    IN  SubSeq(lst, 1, n) \o <<pair>> \o SubSeq(lst, n + 1, Len(lst))

\* UnifiedMemoryIndex.add_entry
add_entry(ix, memory_id, entry) ==
    [type_index |-> [ix.type_index EXCEPT ![entry.memory_type] = Append(@, memory_id)],
     category_index |-> [ix.category_index EXCEPT ![entry.category] = Append(@, memory_id)],
     tag_index |-> [t \in TagSet |->
                       IF t \in Range(entry.tags)
                       THEN ix.tag_index[t] \o
                            [i \in 1..Cardinality({j \in DOMAIN entry.tags : entry.tags[j] = t})
                               |-> memory_id]
                       ELSE ix.tag_index[t]],
     content_index |-> [w \in WordChars |->
                           IF w \in Words(entry.content)
                           THEN Append(ix.content_index[w], memory_id)
                           ELSE ix.content_index[w]],
     timestamp_index |-> InsertSorted(ix.timestamp_index, <<entry.timestamp, memory_id>>),
     importance_index |-> InsertSorted(ix.importance_index, <<entry.importance, memory_id>>)]

\* the union of index lists idx[k], k in keys, as a set of ids
IdsOf(idx, keys) == UNION {Range(idx[k]) : k \in keys}

\* one filter step of search: "if candidate_ids: candidate_ids &= ids
\* else: candidate_ids = ids"
FilterStep(candidate_ids, given, ids) ==
    IF ~given THEN candidate_ids
    ELSE IF candidate_ids # {} THEN candidate_ids \cap ids
    ELSE ids

\* the ids of timestamp_index[:max_results], for every order of the tuples of
\* equal timestamp
TopRecent(ix, max_results) ==
    LET lst == ix.timestamp_index
        n == Min(max_results, Len(lst))
    IN  {{lst[i][2] : i \in P} :
            P \in {Q \in SUBSET DOMAIN lst :
                     /\ Cardinality(Q) = n
                     /\ \A i \in Q, j \in DOMAIN lst \ Q : lst[i][1] >= lst[j][1]}}

\* the subsets of S that have k elements
RECURSIVE KSubsets(_, _)
KSubsets(S, k) ==
    IF k = 0 THEN {{}}
    ELSE IF Cardinality(S) < k THEN {}
    ELSE LET x == CHOOSE y \in S : TRUE
         IN  KSubsets(S \ {x}, k) \cup {T \cup {x} : T \in KSubsets(S \ {x}, k - 1)}

\* list(candidate_ids)[:max_results]: a set has no order of its own, so any
\* max_results of the candidates may be the ones kept
Truncate(candidate_ids, max_results) ==
    IF Cardinality(candidate_ids) <= max_results
    THEN {candidate_ids}
    ELSE KSubsets(candidate_ids, max_results)

\* the candidate set of search before "no filters" and truncation
SearchCandidates(ix, query, memory_types, categories, tags) ==
    LET query_words == {Lower(query[i]) : i \in DOMAIN query} \cap WordChars
        c0 == IF Len(query) > 0 THEN IdsOf(ix.content_index, query_words) ELSE {}
        c1 == FilterStep(c0, memory_types # {}, IdsOf(ix.type_index, memory_types))
        c2 == FilterStep(c1, categories # {}, IdsOf(ix.category_index, categories))
        c3 == FilterStep(c2, tags # {}, IdsOf(ix.tag_index, tags))
    IN  c3

\* UnifiedMemoryIndex.search: the set of results the call can give (each a
\* set of ids; the order of the returned list is open)
search(ix, query, memory_types, categories, tags, max_results) ==
    IF Len(query) = 0 /\ memory_types = {} /\ categories = {} /\ tags = {}
    THEN UNION {Truncate(S, max_results) : S \in TopRecent(ix, max_results)}
    ELSE Truncate(SearchCandidates(ix, query, memory_types, categories, tags), max_results)

----------------------------------------------------------------------------
(* The durable table and the tiers *)

\* _persist_memory: INSERT OR REPLACE of the entry's row
_persist_memory(table, memory) ==
    [i \in DOMAIN table \cup {memory.id} |-> IF i = memory.id THEN memory ELSE table[i]]

\* the exception that _row_to_memory raises on a malformed row
RowError == [id |-> <<"error">>]

\* _row_to_memory: the model's contents are strings that are no JSON text, so
\* json.loads(content) fails and the string is kept; MemoryType(memory_type)
\* and StorageTier(storage_tier) raise ValueError on a value outside the enum
_row_to_memory(row) ==
    IF row.memory_type \in MemoryType /\ row.storage_tier \in StorageTier
    THEN row ELSE RowError

\* _get_memory_by_id: hot, then warm, then the table; NoEntry for None
NoEntry == [id |-> NoId]

_get_memory_by_id(hot, warm, table, memory_id) ==
    IF HasKey(hot, memory_id) THEN Get(hot, memory_id)
    ELSE IF HasKey(warm, memory_id) THEN Get(warm, memory_id)
    ELSE IF memory_id \in DOMAIN table /\ _row_to_memory(table[memory_id]) # RowError
    THEN _row_to_memory(table[memory_id])
    ELSE NoEntry

\* the sort key (m.last_accessed, m.importance) of the demotions
KeyLess(a, b) ==
    \/ a.last_accessed < b.last_accessed
    \/ a.last_accessed = b.last_accessed /\ a.importance < b.importance

\* a list left in the insertion order of the map
SortByKey_Unsorted(lst) == lst

\* list.sort(key=...) : stable, ascending
RECURSIVE SortByKey(_)
SortByKey(lst) ==
    IF Len(lst) <= 1 THEN lst
    ELSE LET rest == SortByKey(Tail(lst))
             x == Head(lst)
             n == Cardinality({i \in DOMAIN rest : KeyLess(rest[i], x)})
         IN  SubSeq(rest, 1, n) \o <<x>> \o SubSeq(rest, n + 1, Len(rest))

\* max(1, len(lst) // 10)
DemoteCount(lst) == Max(1, Len(lst) \div 10)

\* _demote_cold_hot_memories, on the state s = [hot, warm, db]
RECURSIVE DemoteHotLoop(_, _)
DemoteHotLoop(s, victims) ==
    IF victims = <<>> THEN s
    ELSE LET memory == [Head(victims) EXCEPT !.storage_tier = "warm"]
         IN  DemoteHotLoop([hot |-> Del(s.hot, memory.id),
                            warm |-> Put(s.warm, memory),
                            db |-> _persist_memory(s.db, memory)],
                           Tail(victims))

_demote_cold_hot_memories(s) ==
    LET hot_list == SortByKey(s.hot)
    IN  DemoteHotLoop(s, SubSeq(hot_list, 1, DemoteCount(hot_list)))

\* a demotion to the cold tier that drops the entry: it leaves the warm map
\* and its row goes with it
RECURSIVE DemoteWarmLoop_Drops(_, _)
DemoteWarmLoop_Drops(s, victims) ==
    IF victims = <<>> THEN s
    ELSE LET memory == Head(victims)
         IN  DemoteWarmLoop_Drops([hot |-> s.hot,
                                   warm |-> Del(s.warm, memory.id),
                                   db |-> [i \in DOMAIN s.db \ {memory.id} |-> s.db[i]]],
                                  Tail(victims))

\* _demote_cold_warm_memories
RECURSIVE DemoteWarmLoop(_, _)
DemoteWarmLoop(s, victims) ==
    IF victims = <<>> THEN s
    ELSE LET memory == [Head(victims) EXCEPT !.storage_tier = "cold"]
         IN  DemoteWarmLoop([hot |-> s.hot,
                             warm |-> Del(s.warm, memory.id),
                             db |-> _persist_memory(s.db, memory)],
                            Tail(victims))

_demote_cold_warm_memories(s) ==
    LET warm_list == SortByKey(s.warm)
    IN  DemoteWarmLoop(s, SubSeq(warm_list, 1, DemoteCount(warm_list)))

\* a placement that forgets the cold branch
TierFor_NoCold(memory) ==
    IF memory.importance >= HotImportance \/ memory.memory_type \in HotTypes THEN "hot"
    ELSE "warm"

\* a placement whose thresholds are exclusive
TierFor_Exclusive(memory) ==
    IF memory.importance > HotImportance \/ memory.memory_type \in HotTypes THEN "hot"
    ELSE IF memory.importance > WarmImportance THEN "warm"
    ELSE "cold"

\* the tier _store_in_tier picks
TierFor(memory) ==
    IF memory.importance >= HotImportance \/ memory.memory_type \in HotTypes THEN "hot"
    ELSE IF memory.importance >= WarmImportance THEN "warm"
    ELSE "cold"

\* _store_in_tier on s = [hot, warm, db]
_store_in_tier(s, memory) ==
    LET tier == TierFor(memory)
        placed == [memory EXCEPT !.storage_tier = tier]
    IN  IF tier = "hot"
        THEN LET s1 == [s EXCEPT !.hot = Put(s.hot, placed)]
             IN  IF Len(s1.hot) > max_hot_memories
                 THEN _demote_cold_hot_memories(s1) ELSE s1
        ELSE IF tier = "warm"
        THEN LET s1 == [s EXCEPT !.warm = Put(s.warm, placed)]
             IN  IF Len(s1.warm) > max_warm_memories
                 THEN _demote_cold_warm_memories(s1) ELSE s1
        ELSE s

\* the entry object after _store_in_tier: a demotion of the new entry itself
\* changes its storage_tier
PlacedEntry(s2, memory) ==
    LET tier == TierFor(memory)
    IN  IF HasKey(s2.hot, memory.id) /\ tier = "hot" THEN Get(s2.hot, memory.id)
        ELSE IF tier = "hot" THEN [memory EXCEPT !.storage_tier = "warm"]
        ELSE IF tier = "warm" /\ HasKey(s2.warm, memory.id) THEN Get(s2.warm, memory.id)
        ELSE [memory EXCEPT !.storage_tier = "cold"]

----------------------------------------------------------------------------
(* The duplicate check, the cleanup and the two public operations *)

SimilarityThreshold == 80

\* a stricter duplicate test: the threshold taken as 0.9
Similar_TooStrict(content_words, existing_words) ==
    /\ content_words # {}
    /\ existing_words # {}
    /\ Cardinality(content_words \cap existing_words) * 100
         > 90 * Cardinality(content_words \cup existing_words)

\* "if content_words and existing_words: ... similarity > 0.8"
Similar(content_words, existing_words) ==
    /\ content_words # {}
    /\ existing_words # {}
    /\ Cardinality(content_words \cap existing_words) * 100
         > SimilarityThreshold * Cardinality(content_words \cup existing_words)

\* the candidates of one search result that _check_for_duplicates would merge
\* into, were it to reach them first
DuplicatesAmong(hot, warm, table, candidates, new_memory) ==
    {c \in candidates :
        LET existing_memory == _get_memory_by_id(hot, warm, table, c)
        IN  /\ existing_memory # NoEntry
            /\ Similar(Words(new_memory.content), Words(existing_memory.content))}

\* a merge that takes the importance of the new entry as it is
MergeInto_Overwrite(s, c, new_memory, t) ==
    LET existing_memory == _get_memory_by_id(s.hot, s.warm, s.db, c)
        merged == [existing_memory EXCEPT
                      !.frequency_accessed = @ + 1,
                      !.last_accessed = t,
                      !.importance = new_memory.importance]
    IN  [hot |-> IF HasKey(s.hot, c) THEN Put(s.hot, merged) ELSE s.hot,
         warm |-> IF ~HasKey(s.hot, c) /\ HasKey(s.warm, c)
                  THEN Put(s.warm, merged) ELSE s.warm,
         db |-> _persist_memory(s.db, merged)]

\* the merge of _check_for_duplicates into candidate c, on s = [hot, warm, db]
MergeInto(s, c, new_memory, t) ==
    LET existing_memory == _get_memory_by_id(s.hot, s.warm, s.db, c)
        merged == [existing_memory EXCEPT
                      !.frequency_accessed = @ + 1,
                      !.last_accessed = t,
                      !.importance = IF new_memory.importance > @
                                     THEN new_memory.importance ELSE @]
    IN  [hot |-> IF HasKey(s.hot, c) THEN Put(s.hot, merged) ELSE s.hot,
         warm |-> IF ~HasKey(s.hot, c) /\ HasKey(s.warm, c)
                  THEN Put(s.warm, merged) ELSE s.warm,
         db |-> _persist_memory(s.db, merged)]

\* a cleanup whose DELETE takes importance 0.3 as well
_perform_cleanup_Inclusive(table, t) ==
    LET cutoff_time == t - RetentionHours
    IN  [i \in {j \in DOMAIN table :
                  ~(/\ table[j].timestamp < cutoff_time
                    /\ table[j].importance <= DeleteImportance
                    /\ table[j].frequency_accessed < DeleteFrequency)} |-> table[i]]

\* _perform_cleanup: the DELETE, then the UPDATE, on the table
_perform_cleanup(table, t) ==
    LET cutoff_time == t - RetentionHours
        kept == {i \in DOMAIN table :
                   ~(/\ table[i].timestamp < cutoff_time
                     /\ table[i].importance < DeleteImportance
                     /\ table[i].frequency_accessed < DeleteFrequency)}
    IN  [i \in kept |->
            IF table[i].last_accessed < cutoff_time /\ table[i].importance < ColdImportance
            THEN [table[i] EXCEPT !.storage_tier = "cold"]
            ELSE table[i]]

\* no export file was written yet. A file is its format, "unified" for
\* the key unified_memories and "legacy" for the key memories, and its
\* records in the order of the file; a record is a function from its keys
NoFile == [format |-> "none", records |-> <<>>]

\* no table: the call made no cleanup
NoRows == <<>>

\* the latest call: its arguments, what it returned and, when it ended with
\* _perform_cleanup, the table that the cleanup found (swept)
NoCall == [op |-> "none", at |-> 0, args |-> <<>>, ret |-> NoId, result |-> <<>>,
           swept |-> NoRows]

\* the state of the UnifiedMemorySystem object and of its table
Sys ==
    [hot |-> hot_memories, warm |-> warm_memories, db |-> db, index |-> index,
     operation_count |-> operation_count]

\* the body of store_memory at time t on the system state sys: every state
\* the call can leave, with the id it returns (ret) and the table its
\* cleanup found (swept)
StoreOutcomes(sys, content, memory_type, category, importance, tags, t) ==
    LET memory == NewEntry(content, memory_type, category, importance, tags, t)
        s == [hot |-> sys.hot, warm |-> sys.warm, db |-> sys.db]
        Merged(c) ==
            LET s1 == MergeInto(s, c, memory, t)
            IN  [hot |-> s1.hot, warm |-> s1.warm, db |-> s1.db, index |-> sys.index,
                 operation_count |-> sys.operation_count,
                 ret |-> NoId, swept |-> NoRows]
        Created ==
            LET s2 == _store_in_tier(s, memory)
                placed == PlacedEntry(s2, memory)
                table == _persist_memory(s2.db, placed)
                count == sys.operation_count + 1
            IN  [hot |-> s2.hot, warm |-> s2.warm,
                 db |-> IF count % cleanup_interval = 0
                        THEN _perform_cleanup(table, t) ELSE table,
                 index |-> add_entry(sys.index, memory.id, placed),
                 operation_count |-> count,
                 ret |-> memory.id,
                 swept |-> IF count % cleanup_interval = 0 THEN table ELSE NoRows]
    IN  UNION {LET dups == DuplicatesAmong(s.hot, s.warm, s.db, similar_candidates, memory)
               IN  IF dups # {} THEN {Merged(c) : c \in dups} ELSE {Created} :
                 similar_candidates \in
                   search(sys.index, <<>>, {memory_type}, {category}, {}, DuplicateMaxResults)}

\* UnifiedMemorySystem.store_memory
store_memory(content, memory_type, category, importance, tags, max_calls) ==
    /\ calls.store < max_calls
    /\ \E o \in StoreOutcomes(Sys, content, memory_type, category, importance, tags, now) :
         /\ hot_memories' = o.hot
         /\ warm_memories' = o.warm
         /\ db' = o.db
         /\ index' = o.index
         /\ operation_count' = o.operation_count
         /\ last' = [op |-> "store", at |-> now,
                     args |-> [content |-> content, memory_type |-> memory_type,
                               category |-> category, importance |-> importance,
                               tags |-> tags],
                     ret |-> o.ret, result |-> <<>>, swept |-> o.swept]
    /\ calls' = [calls EXCEPT !.store = @ + 1]
    /\ UNCHANGED <<now, file, threads>>

\* all orders of a finite set
RECURSIVE Perms(_)
Perms(S) ==
    IF S = {} THEN {<<>>}
    ELSE UNION {{<<x>> \o p : p \in Perms(S \ {x})} : x \in S}

\* a ranking that leaves the found entries in the order of the candidate list
Ranked_Unsorted(found, query, t) == Perms(found)

\* memories.sort(key=calculate_relevance_score, reverse=True) applied to the
\* found entries, whose order before the sort is the open order of the
\* candidate list: every order with non-increasing scores
Ranked(found, query, t) ==
    {p \in Perms(found) :
        \A i \in 1..(Len(p) - 1) :
            calculate_relevance_score(p[i], query, t)
              >= calculate_relevance_score(p[i + 1], query, t)}

\* the body of retrieve_memories at time t on the system state sys: every
\* outcome of the call, the maps with the accesses counted and the list it
\* returns (result)
RetrieveOutcomes(sys, query, memory_types, categories, tags, max_results, min_importance, t) ==
    UNION {LET hit == {c \in candidate_ids :
                         LET memory == _get_memory_by_id(sys.hot, sys.warm, sys.db, c)
                         IN  memory # NoEntry /\ memory.importance >= min_importance}
               found == {update_access(_get_memory_by_id(sys.hot, sys.warm, sys.db, c), t) :
                           c \in hit}
               hot == [i \in DOMAIN sys.hot |->
                         IF sys.hot[i].id \in hit
                         THEN update_access(sys.hot[i], t) ELSE sys.hot[i]]
               warm == [i \in DOMAIN sys.warm |->
                          IF sys.warm[i].id \in hit /\ ~HasKey(sys.hot, sys.warm[i].id)
                          THEN update_access(sys.warm[i], t) ELSE sys.warm[i]]
           IN  {[hot |-> hot, warm |-> warm,
                 result |-> SubSeq(memories, 1, Min(max_results, Len(memories)))] :
                  memories \in Ranked(found, query, t)} :
             candidate_ids \in
               search(sys.index, query, memory_types, categories, tags, max_results * 3)}

\* UnifiedMemorySystem.retrieve_memories
retrieve_memories(query, memory_types, categories, tags, max_results, min_importance, max_calls) ==
    /\ calls.retrieve < max_calls
    /\ \E o \in RetrieveOutcomes(Sys, query, memory_types, categories, tags, max_results, min_importance, now) :
         /\ hot_memories' = o.hot
         /\ warm_memories' = o.warm
         /\ last' = [op |-> "retrieve", at |-> now,
                     args |-> [query |-> query, memory_types |-> memory_types,
                               categories |-> categories, tags |-> tags,
                               max_results |-> max_results,
                               min_importance |-> min_importance],
                     ret |-> NoId, result |-> o.result, swept |-> NoRows]
    /\ calls' = [calls EXCEPT !.retrieve = @ + 1]
    /\ UNCHANGED <<now, db, index, operation_count, file, threads>>

\* the system state as a call sees it while the database cannot be opened:
\* sqlite3.connect raises in every read and write of the call, each of which
\* catches and logs the exception, so the reads find no row and the writes
\* and the cleanup leave the table as it is
Unavailable(sys) == [sys EXCEPT !.db = NoRows]

\* store_memory while the database cannot be opened
store_memory_unavailable(content, memory_type, category, importance, tags, max_calls) ==
    /\ calls.store < max_calls
    /\ \E o \in StoreOutcomes(Unavailable(Sys), content, memory_type, category, importance,
                              tags, now) :
         /\ hot_memories' = o.hot
         /\ warm_memories' = o.warm
         /\ index' = o.index
         /\ operation_count' = o.operation_count
         /\ last' = [op |-> "store_unavailable", at |-> now,
                     args |-> [content |-> content, memory_type |-> memory_type,
                               category |-> category, importance |-> importance,
                               tags |-> tags],
                     ret |-> o.ret, result |-> <<>>, swept |-> NoRows]
    /\ calls' = [calls EXCEPT !.store = @ + 1]
    /\ UNCHANGED <<now, db, file, threads>>

\* retrieve_memories while the database cannot be opened
retrieve_memories_unavailable(query, memory_types, categories, tags, max_results, min_importance, max_calls) ==
    /\ calls.retrieve < max_calls
    /\ \E o \in RetrieveOutcomes(Unavailable(Sys), query, memory_types, categories, tags, max_results, min_importance, now) :
         /\ hot_memories' = o.hot
         /\ warm_memories' = o.warm
         /\ last' = [op |-> "retrieve_unavailable", at |-> now,
                     args |-> [query |-> query, memory_types |-> memory_types,
                               categories |-> categories, tags |-> tags,
                               max_results |-> max_results,
                               min_importance |-> min_importance],
                     ret |-> NoId, result |-> o.result, swept |-> NoRows]
    /\ calls' = [calls EXCEPT !.retrieve = @ + 1]
    /\ UNCHANGED <<now, db, index, operation_count, file, threads>>

\* the clock moves on by delta hours between two calls
Tick(delta, max_calls) ==
    /\ calls.tick < max_calls
    /\ now' = now + delta
    /\ calls' = [calls EXCEPT !.tick = @ + 1]
    /\ UNCHANGED <<hot_memories, warm_memories, db, index, operation_count, last, file, threads>>

\* a row becomes malformed: its memory_type column holds a value that is not
\* in the enum (written by another program or another version of this one)
CorruptRow ==
    /\ \E i \in DOMAIN db :
         /\ db[i].memory_type \in MemoryType
         /\ db' = [db EXCEPT ![i].memory_type = "unknown"]
    /\ UNCHANGED <<now, hot_memories, warm_memories, index, operation_count, calls, last, file, threads>>

\* the ORDER BY importance DESC, last_accessed DESC of _load_hot_memories
LoadBefore(a, b) ==
    \/ a.importance > b.importance
    \/ a.importance = b.importance /\ a.last_accessed >= b.last_accessed

\* the ids of the rows that _load_hot_memories selects, in every order the
\* ORDER BY allows, cut by LIMIT max_hot_memories
HotRows(table) ==
    LET ids == {i \in DOMAIN table : table[i].storage_tier = "hot"}
    IN  {SubSeq(p, 1, Min(max_hot_memories, Len(p))) :
           p \in {q \in Perms(ids) :
                    \A k \in 1..(Len(q) - 1) : LoadBefore(table[q[k]], table[q[k + 1]])}}

\* the loop of _load_hot_memories on s = [hot, index]: the exception of a
\* malformed row leaves the loop, the rows loaded before it stay
RECURSIVE LoadRows(_, _, _)
LoadRows(s, rows, table) ==
    IF rows = <<>> THEN s
    ELSE LET memory == _row_to_memory(table[Head(rows)])
         IN  IF memory = RowError THEN s
             ELSE LoadRows([hot |-> Put(s.hot, memory),
                            index |-> add_entry(s.index, memory.id, memory)],
                           Tail(rows), table)

\* UnifiedMemorySystem.__init__ over the database of an earlier run: the
\* process is started again
Restart(max_calls) ==
    /\ calls.other < max_calls
    /\ \E rows \in HotRows(db) :
         LET s == LoadRows([hot |-> <<>>, index |-> EmptyIndex], rows, db)
         IN  /\ hot_memories' = s.hot
             /\ index' = s.index
    /\ warm_memories' = <<>>
    /\ operation_count' = 0
    /\ last' = [NoCall EXCEPT !.op = "restart", !.at = now]
    /\ calls' = [calls EXCEPT !.other = @ + 1]
    /\ UNCHANGED <<now, db, file, threads>>

\* the members of MemoryType in the order of the enum
MemoryTypeOrder == <<"conversation", "event", "personality", "relationship", "goal">>

\* the system state that an outcome of store_memory or retrieve_memories
\* leaves, on the state sys it was called on
SysAfter(sys, o) ==
    [hot |-> o.hot, warm |-> o.warm,
     db |-> IF "db" \in DOMAIN o THEN o.db ELSE sys.db,
     index |-> IF "index" \in DOMAIN o THEN o.index ELSE sys.index,
     operation_count |-> IF "operation_count" \in DOMAIN o
                         THEN o.operation_count ELSE sys.operation_count]

\* the loop of export_unified_data over the memory types: one
\* retrieve_memories(memory_types=[memory_type], max_results=10000) each,
\* their results put one behind the other; every [sys, all_memories] it can
\* end with
RECURSIVE ExportLoop(_, _, _)
ExportLoop(sys, types, t) ==
    IF types = <<>> THEN {[sys |-> sys, all_memories |-> <<>>]}
    ELSE UNION {{[sys |-> x.sys, all_memories |-> o.result \o x.all_memories] :
                   x \in ExportLoop(SysAfter(sys, o), Tail(types), t)} :
                 o \in RetrieveOutcomes(sys, <<>>, {Head(types)}, {}, {}, 10000, 0, t)}

\* the record export_unified_data writes for an entry (the keys the import
\* reads and the model has)
ExportRecord(memory) ==
    [content |-> memory.content, memory_type |-> memory.memory_type,
     category |-> memory.category, importance |-> memory.importance,
     tags |-> memory.tags]

\* MemoryIntegrationBridge.export_unified_data
export_unified_data(max_calls) ==
    /\ calls.other < max_calls
    /\ \E x \in ExportLoop(Sys, MemoryTypeOrder, now) :
         /\ hot_memories' = x.sys.hot
         /\ warm_memories' = x.sys.warm
         /\ file' = [format |-> "unified",
                     records |-> [i \in DOMAIN x.all_memories |->
                                    ExportRecord(x.all_memories[i])]]
    /\ last' = [NoCall EXCEPT !.op = "export_unified", !.at = now]
    /\ calls' = [calls EXCEPT !.other = @ + 1]
    /\ UNCHANGED <<now, db, index, operation_count, threads>>

\* the records import_unified_data stores without an exception: every key
\* it reads with [] is there and MemoryType(memory_type) is a member
WellFormed(r) ==
    /\ {"content", "memory_type", "category", "importance", "tags"} \subseteq DOMAIN r
    /\ r.memory_type \in MemoryType

\* the loop of import_unified_data: one store_memory for each record, a
\* record that raises is logged and passed over; every [sys,
\* imported_count] it can end with
RECURSIVE ImportUnifiedLoop(_, _, _)
ImportUnifiedLoop(sys, records, t) ==
    IF records = <<>> THEN {[sys |-> sys, imported_count |-> 0]}
    ELSE LET r == Head(records)
         IN  IF WellFormed(r)
             THEN UNION {{[sys |-> x.sys, imported_count |-> x.imported_count + 1] :
                            x \in ImportUnifiedLoop(SysAfter(sys, o), Tail(records), t)} :
                          o \in StoreOutcomes(sys, r.content, r.memory_type, r.category,
                                              r.importance, r.tags, t)}
             ELSE ImportUnifiedLoop(sys, Tail(records), t)

\* MemoryIntegrationBridge.import_unified_data; it returns True and logs
\* imported_count
import_unified_data(max_calls) ==
    /\ calls.other < max_calls
    /\ \E x \in ImportUnifiedLoop(Sys, IF file.format = "unified" THEN file.records ELSE <<>>,
                                  now) :
         /\ hot_memories' = x.sys.hot
         /\ warm_memories' = x.sys.warm
         /\ db' = x.sys.db
         /\ index' = x.sys.index
         /\ operation_count' = x.sys.operation_count
         /\ last' = [NoCall EXCEPT !.op = "import_unified", !.at = now, !.result = <<TRUE>>]
    /\ calls' = [calls EXCEPT !.other = @ + 1]
    /\ UNCHANGED <<now, file, threads>>

\* memory_data.get(key, default)
GetOr(r, key, default) == IF key \in DOMAIN r THEN r[key] ELSE default

\* the loop of ConversationalMemoryAdapter.import_memories: one
\* store_memory for each record, all inside one try; the KeyError of a
\* record without content ends the loop. Every [sys, ok] it can end with
RECURSIVE ImportLegacyLoop(_, _, _)
ImportLegacyLoop(sys, records, t) ==
    IF records = <<>> THEN {[sys |-> sys, ok |-> TRUE]}
    ELSE LET r == Head(records)
         IN  IF "content" \in DOMAIN r
             THEN UNION {ImportLegacyLoop(SysAfter(sys, o), Tail(records), t) :
                          o \in StoreOutcomes(sys, r.content, "conversation",
                                              GetOr(r, "category", "general"),
                                              GetOr(r, "importance", 50),
                                              GetOr(r, "tags", <<>>), t)}
             ELSE {[sys |-> sys, ok |-> FALSE]}

\* ConversationalMemoryAdapter.import_memories; it returns ok
import_memories(max_calls) ==
    /\ calls.other < max_calls
    /\ \E x \in ImportLegacyLoop(Sys, IF file.format = "legacy" THEN file.records ELSE <<>>,
                                 now) :
         /\ hot_memories' = x.sys.hot
         /\ warm_memories' = x.sys.warm
         /\ db' = x.sys.db
         /\ index' = x.sys.index
         /\ operation_count' = x.sys.operation_count
         /\ last' = [NoCall EXCEPT !.op = "import_legacy", !.at = now, !.result = <<x.ok>>]
    /\ calls' = [calls EXCEPT !.other = @ + 1]
    /\ UNCHANGED <<now, file, threads>>

\* a file is put in place for an import
WriteFile(f) ==
    /\ file = NoFile
    /\ file' = f
    /\ UNCHANGED <<now, hot_memories, warm_memories, db, index, operation_count, calls, last, threads>>

\* UnifiedMemorySystem.__init__ over a fresh database, the export file kept
Fresh(max_calls) ==
    /\ calls.other < max_calls
    /\ hot_memories' = <<>>
    /\ warm_memories' = <<>>
    /\ db' = [i \in {} |-> NoEntry]
    /\ index' = EmptyIndex
    /\ operation_count' = 0
    /\ last' = [NoCall EXCEPT !.op = "fresh", !.at = now]
    /\ calls' = [calls EXCEPT !.other = @ + 1]
    /\ UNCHANGED <<now, file, threads>>

\* the threads of the process that call the system
Threads == 1..NumThreads

\* no thread: the owner of a lock that is free
NoThread == 0

\* a thread that is in no call
Idle == [pc |-> "idle", op |-> "none", args |-> <<>>, memory |-> NoEntry, dup |-> NoId, ret |-> NoId, result |-> <<>>]

\* threading.RLock() of UnifiedMemorySystem.__init__ (lock) and of
\* UnifiedMemoryIndex.__init__ (index_lock), both free, every thread outside
\* a call, and no call returned yet (log)
NoThreads ==
    [lock |-> NoThread, index_lock |-> NoThread, thread |-> [t \in Threads |-> Idle],
     log |-> <<>>]

\* UnifiedMemorySystem.__init__ over a fresh database
Init ==
    /\ now = Epoch0
    /\ hot_memories = <<>>
    /\ warm_memories = <<>>
    /\ db = [i \in {} |-> NoEntry]
    /\ index = EmptyIndex
    /\ operation_count = 0
    /\ calls = [store |-> 0, retrieve |-> 0, tick |-> 0, other |-> 0]
    /\ last = NoCall
    /\ file = NoFile
    /\ threads = NoThreads

----------------------------------------------------------------------------
(* Observations on one step, used by the properties below *)

\* the step is a store_memory call; last' holds its arguments and result
StoreStep == calls'.store = calls.store + 1

\* the step is a retrieve_memories call
RetrieveStep == calls'.retrieve = calls.retrieve + 1

\* every entry the system holds, in a tier map or as a row
AllEntries == Range(hot_memories) \cup Range(warm_memories) \cup {db[i] : i \in DOMAIN db}

\* the ids held by the hot or the warm map
Cached == Keys(hot_memories) \cup Keys(warm_memories)

\* the rows a step wrote: new ones and changed ones
WrittenRows == {i \in DOMAIN db' : i \notin DOMAIN db \/ db'[i] # db[i]}

----------------------------------------------------------------------------
(* Specification Spec: the duplicate check. Contents that are identical,   *)
(* near-identical (A, B: 5 of 6 words shared) and without any word (P),    *)
(* in two types and two categories.                                        *)

Next ==
    \/ \E content \in {ContentA, ContentB, ContentP},
          memory_type \in {"conversation", "goal"},
          category \in Categories :
         store_memory(content, memory_type, category, 50, <<>>, MaxStores)
    \/ retrieve_memories(<<>>, {}, {}, {}, 1, 0, MaxRetrieves)
    \/ Tick(1, MaxTicks)

Spec == Init /\ [][Next]_vars

\* C1: two store_memory calls with the same content, type and category in
\* immediate succession (the clock having moved on in between): the second
\* returns the empty id, adds no row, and raises the frequency_accessed of
\* exactly one row by one.
C1_StoreIdempotent ==
    [][(StoreStep /\ last.op = "store" /\ last'.args = last.args /\ last.at < now)
         => /\ last'.ret = NoId
            /\ DOMAIN db' = DOMAIN db
            /\ \E i \in DOMAIN db :
                 /\ db'[i].frequency_accessed = db[i].frequency_accessed + 1
                 /\ \A j \in DOMAIN db \ {i} : db'[j] = db[j]]_vars

\* C3: store_memory returns the empty id exactly when it merged into an
\* existing entry (no entry is indexed), otherwise the id of the row it
\* created; and it creates an entry whenever no existing entry shares type
\* and category with the new one.
C3_StoreReturn ==
    [][StoreStep
         => /\ (last'.ret = NoId) <=> (index' = index)
            /\ last'.ret # NoId
                 => /\ last'.ret \in DOMAIN db'
                    /\ db'[last'.ret].content = last'.args.content
            /\ (\A e \in AllEntries :
                    ~(/\ e.memory_type = last'.args.memory_type
                      /\ e.category = last'.args.category))
                 => last'.ret # NoId]_vars

\* C4: a store_memory call that is deduplicated (returns the empty id) has
\* written only rows of entries that share type and category with the new
\* entry.
C4_DedupSameTypeAndCategory ==
    [][(StoreStep /\ last'.ret = NoId)
         => \A i \in WrittenRows :
              /\ db'[i].memory_type = last'.args.memory_type
              /\ db'[i].category = last'.args.category]_vars

\* every id that was indexed: the index is never removed from, so these are
\* the ids of all the entries created so far
IndexedIds == {index.timestamp_index[i][2] : i \in DOMAIN index.timestamp_index}

\* C20: a store_memory call that creates an entry gives it an id that no
\* earlier call gave, and takes no key of the hot or warm map and no row
\* that an entry already has; store_memory calls with equal content, type
\* and category at the same reading of the clock included.
C20_IdsUnique ==
    [][(StoreStep /\ last'.ret # NoId)
         => /\ last'.ret \notin IndexedIds
            /\ last'.ret \notin Cached
            /\ last'.ret \notin DOMAIN db]_vars

----------------------------------------------------------------------------
(* Specification SpecNear: the scenario of consecutive stores of           *)
(* conversation entries in one category whose contents are pairwise more   *)
(* than 0.8 similar (A, B, U), starting from the empty store.              *)

NearContents == {ContentA, ContentB, ContentU}

NextNear ==
    \/ \E content \in NearContents, importance \in {50, 90} :
         store_memory(content, "conversation", "dialogue", importance, <<>>, NearMaxStores)
    \/ Tick(1, NearMaxTicks)

SpecNear == Init /\ [][NextNear]_vars

\* C2 as stated: after N consecutive stores of near-identical conversation
\* entries exactly one entry exists and its frequency_accessed is N.
C2_OneEntryCountN ==
    calls.store >= 1
      => /\ Cardinality(DOMAIN db) = 1
         /\ \A i \in DOMAIN db : db[i].frequency_accessed = calls.store

\* C2 amended: after N >= 1 such stores exactly one entry exists (one row,
\* held by the hot tier, the warm tier empty), its content is that of the
\* first store, and its frequency_accessed is N - 1: the first call creates
\* the entry with frequency_accessed 0 and each later call adds one.
C2_OneEntryCountNMinus1 ==
    calls.store >= 1
      => /\ Cardinality(DOMAIN db) = 1
         /\ Len(hot_memories) = 1
         /\ warm_memories = <<>>
         /\ \A i \in DOMAIN db :
              /\ db[i] = hot_memories[1]
              /\ db[i].frequency_accessed = calls.store - 1

\* all the stores were made, contents other than the entry's among them
C2_Witness ==
    /\ calls.store = NearMaxStores
    /\ last.op = "store"
    /\ \E i \in DOMAIN db :
         /\ db[i].frequency_accessed = NearMaxStores - 1
         /\ db[i].content # last.args.content
         /\ Words(db[i].content) # Words(last.args.content)

----------------------------------------------------------------------------
(* Specification SpecTier: tier placement and demotion. Two contents that  *)
(* are no duplicates of each other, a hot type and another type, and       *)
(* importances below 0.4, between 0.4 and 0.7, and above 0.7; the clock   *)
(* may pass the 30 days of the cleanup.                                    *)

NextTier ==
    \/ \E content \in {ContentA, ContentF},
          memory_type \in {"relationship", "goal"},
          importance \in {10, 40, 90} :
         store_memory(content, memory_type, "general", importance, <<>>, TierMaxStores)
    \/ retrieve_memories(<<>>, {}, {}, {}, 1, 0, TierMaxRetrieves)
    \/ Tick(RetentionHours + 1, MaxTicks)

SpecTier == Init /\ [][NextTier]_vars

\* C6: an entry stored with importance 0.9 and type relationship is in the
\* hot tier when store_memory returns.
C6_ImportantRelationshipInHot ==
    [][(/\ StoreStep
        /\ last'.args.importance = 90
        /\ last'.args.memory_type = "relationship"
        /\ last'.ret # NoId)
         => HasKey(hot_memories', last'.ret)]_vars

\* the ids that a step brings into the hot or the warm map
EntersCache == (Keys(hot_memories') \cup Keys(warm_memories')) \ Cached

\* C7 as stated: an entry stored with importance 0.1 is never in the hot or
\* warm map, whatever its type: an id enters the maps only by the store call
\* that creates it, and never when that call's importance is 0.1.
C7_LowImportanceNeverCached ==
    [][\A i \in EntersCache :
         /\ StoreStep
         /\ last'.ret = i
         /\ last'.args.importance # 10]_vars

\* C7 amended: an entry stored with importance 0.1 whose type is neither
\* conversation nor relationship is never in the hot or warm map: an id
\* enters the maps only by the store call that creates it, and never when
\* that call has importance 0.1 and a type outside the two.
C7_LowImportanceOtherTypeNeverCached ==
    [][\A i \in EntersCache :
         /\ StoreStep
         /\ last'.ret = i
         /\ ~(last'.args.importance = 10 /\ last'.args.memory_type \notin HotTypes)]_vars

\* an entry of another type was stored with importance 0.1 while both maps
\* hold entries: it is a row only
C7_Witness ==
    /\ last.op = "store"
    /\ last.args.importance = 10
    /\ last.args.memory_type \notin HotTypes
    /\ last.ret \in DOMAIN db
    /\ last.ret \notin Cached
    /\ db[last.ret].storage_tier = "cold"
    /\ hot_memories # <<>>
    /\ warm_memories # <<>>

----------------------------------------------------------------------------
(* Specification SpecRange: importances a caller may pass, inside and      *)
(* outside [0, 1], with the cleanup acting on rows older than 30 days.     *)

NextRange ==
    \/ \E content \in {ContentA, ContentB, ContentF},
          importance \in {0 - 10, 20, 150} :
         store_memory(content, "goal", "general", importance, <<>>, MaxStores)
    \/ retrieve_memories(<<>>, {}, {}, {}, 1, 0 - 100, MaxRetrieves)
    \/ Tick(RetentionHours + 1, MaxTicks)

SpecRange == Init /\ [][NextRange]_vars

\* C5: every entry, in a tier map or a row, has importance,
\* emotional_weight, plot_relevance and relationship_relevance in [0, 1].
C5_ScoresInUnitRange ==
    \A e \in AllEntries :
        /\ 0 <= e.importance /\ e.importance <= 100
        /\ 0 <= e.emotional_weight /\ e.emotional_weight <= 100
        /\ 0 <= e.plot_relevance /\ e.plot_relevance <= 100
        /\ 0 <= e.relationship_relevance /\ e.relationship_relevance <= 100

----------------------------------------------------------------------------
(* Specification SpecRank: the ranking of retrieval. Entries of two types  *)
(* with three importances, stored up to a week apart; retrieval without    *)
(* query text, of everything or of one type, often enough for an entry to  *)
(* count as frequently accessed. RankMaxCalls bounds the calls and clock   *)
(* steps of a run together.                                                *)

RankBudget == calls.store + calls.retrieve + calls.tick < RankMaxCalls

NextRank ==
    \/ \E e \in {<<ContentA, "goal">>, <<ContentF, "event">>},
          importance \in {40, 50, 90} :
         RankBudget /\ store_memory(e[1], e[2], "general", importance, <<>>, RankMaxStores)
    \/ \E memory_types \in {{}, {"goal"}} :
         RankBudget /\ retrieve_memories(<<>>, memory_types, {}, {}, 3, 0, RankMaxRetrieves)
    \/ RankBudget /\ Tick(WeekHours - RecentHours, RankMaxTicks)

SpecRank == Init /\ [][NextRank]_vars

\* the relevance score an entry of the latest result had when it was ranked
ScoreAt(i) == calculate_relevance_score(last.result[i], last.args.query, last.at)

\* C8 as stated: without query text, retrieve_memories returns the entries
\* in descending order of importance.
C8_OrderedByImportance ==
    (last.op = "retrieve" /\ last.args.query = <<>>)
      => \A i, j \in DOMAIN last.result :
           i < j => last.result[i].importance >= last.result[j].importance

\* C8 amended: without query text, retrieve_memories returns the entries in
\* descending order of relevance score (importance plus the recency and
\* access boosts, capped at 1.0); two returned entries with equal boosts
\* whose scores are not both at the cap, and of different importance, come
\* in descending order of importance.
C8_OrderedByScore ==
    (last.op = "retrieve" /\ last.args.query = <<>>)
      => \A i, j \in DOMAIN last.result :
           i < j =>
             /\ ScoreAt(i) >= ScoreAt(j)
             /\ (/\ Boosts(last.result[i], <<>>, last.at) = Boosts(last.result[j], <<>>, last.at)
                 /\ ~(ScoreAt(i) = MaxScore /\ ScoreAt(j) = MaxScore)
                 /\ last.result[i].importance # last.result[j].importance)
                  => last.result[i].importance > last.result[j].importance

\* a retrieval without query text returned two frequently accessed entries
\* of different importance and equal boosts, their scores not both at the
\* cap, the more important one first
C8_Witness ==
    /\ last.op = "retrieve"
    /\ last.args.query = <<>>
    /\ Len(last.result) = 2
    /\ last.result[1].frequency_accessed > FrequentAccesses
    /\ Boosts(last.result[1], <<>>, last.at) = Boosts(last.result[2], <<>>, last.at)
    /\ ~(ScoreAt(1) = MaxScore /\ ScoreAt(2) = MaxScore)
    /\ last.result[1].importance > last.result[2].importance

\* C9: of two returned entries with equal relevance score the one of higher
\* importance comes first, and of two with equal importance as well the one
\* created more recently.
C9_TiesByImportanceThenRecency ==
    last.op = "retrieve"
      => \A i, j \in DOMAIN last.result :
           (i < j /\ ScoreAt(i) = ScoreAt(j))
             => \/ last.result[i].importance > last.result[j].importance
                \/ /\ last.result[i].importance = last.result[j].importance
                   /\ last.result[i].timestamp >= last.result[j].timestamp

----------------------------------------------------------------------------
(* Specification SpecFilter: the filters of retrieval. Entries of two      *)
(* types, with and without a tag; retrieval by query word, type, category  *)
(* and tag in every combination, the type filter naming stored types and   *)
(* a type no entry has.                                                    *)

NextFilter ==
    \/ \E e \in {<<ContentA, "goal">>, <<ContentF, "event">>},
          tags \in {<<>>, <<"t1">>} :
         store_memory(e[1], e[2], "general", 60, tags, MaxStores)
    \/ \E query \in {<<>>, <<"a">>},
          memory_types \in {{}, {"goal"}, {"personality"}, {"personality", "goal"}},
          categories \in {{}, {"general"}},
          tags \in {{}, {"t1"}},
          max_results \in {1, 10} :
         retrieve_memories(query, memory_types, categories, tags, max_results, 0,
                           MaxRetrieves)
    \/ Tick(1, MaxTicks)

SpecFilter == Init /\ [][NextFilter]_vars

\* C10: retrieve_memories with a type filter returns no entry of a type
\* outside the filter, whatever the other filters; with the type filter
\* alone it returns exactly the stored entries of those types when they are
\* at most max_results.
C10_TypeFilter ==
    (last.op = "retrieve" /\ last.args.memory_types # {})
      => /\ \A i \in DOMAIN last.result :
              last.result[i].memory_type \in last.args.memory_types
         /\ LET matching == {e.id : e \in {x \in AllEntries :
                                             x.memory_type \in last.args.memory_types}}
            IN  (/\ last.args.query = <<>>
                 /\ last.args.categories = {}
                 /\ last.args.tags = {}
                 /\ Cardinality(matching) <= last.args.max_results)
                  => {last.result[i].id : i \in DOMAIN last.result} = matching

----------------------------------------------------------------------------
(* Specification SpecRead: what a retrieval returns and what it records.   *)
(* A conversation entry (hot tier) and goal entries of importance 0.2      *)
(* (a row only) and 0.6 (warm tier, one place); retrieval with and without *)
(* query text, with limit 1 or 2 and with min_importance 0 or 0.5.         *)

NextRead ==
    \/ \E e \in {<<ContentA, "conversation">>, <<ContentC, "goal">>, <<ContentF, "goal">>},
          importance \in {20, 60} :
         store_memory(e[1], e[2], "general", importance, <<>>, ReadMaxStores)
    \/ \E query \in {<<>>, <<"a">>}, max_results \in {1, 2}, min_importance \in {0, 50} :
         retrieve_memories(query, {}, {}, {}, max_results, min_importance, ReadMaxRetrieves)
    \/ Tick(1, MaxTicks)

SpecRead == Init /\ [][NextRead]_vars

\* C11: retrieve_memories returns at most max_results entries, each of
\* importance at least min_importance, in non-increasing order of the
\* relevance score computed for the query.
C11_RetrieveBounded ==
    last.op = "retrieve"
      => /\ Len(last.result) <= last.args.max_results
         /\ \A i \in DOMAIN last.result :
              last.result[i].importance >= last.args.min_importance
         /\ \A i, j \in DOMAIN last.result : i < j => ScoreAt(i) >= ScoreAt(j)

\* a retrieval with query text and min_importance 0.5 returned max_results
\* entries, while another entry that matches the query and meets
\* min_importance was cut and a third is below min_importance
C11_Witness ==
    /\ last.op = "retrieve"
    /\ last.args.query # <<>>
    /\ last.args.min_importance > 0
    /\ Len(last.result) = last.args.max_results
    /\ \E e \in AllEntries :
         /\ e.importance >= last.args.min_importance
         /\ ContextMatches(e, last.args.query) > 0
         /\ \A i \in DOMAIN last.result : last.result[i].id # e.id
    /\ \E e \in AllEntries : e.importance < last.args.min_importance

\* the candidate ids of the retrieval a step makes, when the index holds no
\* more than the max_results * 3 that search may return (the candidate set
\* is then the only one search can give)
CandidatesOfStep ==
    LET a == last'.args
        results == search(index, a.query, a.memory_types, a.categories, a.tags,
                          a.max_results * 3)
    IN  IF Cardinality(results) = 1 THEN CHOOSE S \in results : TRUE ELSE {}

\* _get_memory_by_id before and after the step
Fetch(memory_id) == _get_memory_by_id(hot_memories, warm_memories, db, memory_id)
FetchAfter(memory_id) == _get_memory_by_id(hot_memories', warm_memories', db', memory_id)

\* C12: a retrieve_memories call counts an access on every candidate that
\* resolves to an entry of importance at least min_importance, returned or
\* cut by max_results: the entry's frequency_accessed is one higher and its
\* last_accessed is the time of the call; an entry below min_importance is
\* left as it was.
C12_AccessBookkeeping ==
    [][RetrieveStep
         => \A c \in CandidatesOfStep :
              Fetch(c) # NoEntry
                => IF Fetch(c).importance >= last'.args.min_importance
                   THEN /\ FetchAfter(c).frequency_accessed = Fetch(c).frequency_accessed + 1
                        /\ FetchAfter(c).last_accessed = now
                   ELSE FetchAfter(c) = Fetch(c)]_vars

\* C13: when retrieve_memories returns an entry, _get_memory_by_id of its id
\* afterwards gives a frequency_accessed greater than the one before the
\* call and a last_accessed that is not earlier, in whichever tier the entry
\* lives.
C13_AccessCountGrows ==
    [][RetrieveStep
         => \A i \in DOMAIN last'.result :
              LET memory_id == last'.result[i].id
              IN  /\ FetchAfter(memory_id) # NoEntry
                  /\ FetchAfter(memory_id).frequency_accessed
                       > Fetch(memory_id).frequency_accessed
                  /\ FetchAfter(memory_id).last_accessed
                       >= Fetch(memory_id).last_accessed]_vars

----------------------------------------------------------------------------
(* Specification SpecSweep: the cleanup. Entries of importance 0.2 and 0.3 *)
(* in the hot tier (conversation) and as rows only (goal), accessed by     *)
(* retrievals and by merges of repeated stores, and a clock step past the  *)
(* 30 days; every cleanup_interval-th created entry ends with the cleanup. *)
(* SweepMaxCalls bounds the calls and clock steps of a run together.       *)

SweepBudget == calls.store + calls.retrieve + calls.tick < SweepMaxCalls

NextSweep ==
    \/ \E e \in {<<ContentA, "conversation", 20>>, <<ContentA, "conversation", 30>>,
                 <<ContentF, "goal", 30>>, <<ContentC, "goal", 20>>} :
         SweepBudget /\ store_memory(e[1], e[2], "general", e[3], <<>>, SweepMaxStores)
    \/ SweepBudget /\ retrieve_memories(<<>>, {}, {}, {}, 1, 0, SweepMaxRetrieves)
    \/ SweepBudget /\ Tick(RetentionHours + 1, MaxTicks)

SpecSweep == Init /\ [][NextSweep]_vars

\* the latest call was a store_memory that ended with _perform_cleanup; db
\* is the table the cleanup left
Swept == last.op = "store" /\ last.swept # NoRows

\* the rows of the swept table that are older than the 30 days
OldRows == {i \in DOMAIN last.swept : last.swept[i].timestamp < last.at - RetentionHours}

\* C14: a cleanup deletes no row of importance 0.3 or more, however old the
\* entry and however low its frequency_accessed.
C14_EvictionFloor ==
    Swept => \A i \in DOMAIN last.swept :
                last.swept[i].importance >= DeleteImportance => i \in DOMAIN db

\* a cleanup found a row older than 30 days, of importance exactly 0.3 and
\* never accessed, and left it
C14_Witness ==
    /\ Swept
    /\ \E i \in OldRows :
         /\ last.swept[i].importance = DeleteImportance
         /\ last.swept[i].frequency_accessed = 0
         /\ i \in DOMAIN db

\* how often an entry of the swept table was accessed: the count of the
\* entry in the hot or warm map, of the row otherwise
AccessesOf(i) ==
    _get_memory_by_id(hot_memories, warm_memories, last.swept, i).frequency_accessed

\* C15: a cleanup neither deletes nor changes (re-tiers) the row of an entry
\* that was accessed more than twice, by retrievals or merges.
C15_SweepSparesAccessed ==
    Swept => \A i \in DOMAIN last.swept :
                AccessesOf(i) > DeleteFrequency
                  => /\ i \in DOMAIN db
                     /\ db[i] = last.swept[i]

----------------------------------------------------------------------------
(* Specification SpecIo: calls made while the database cannot be opened,   *)
(* among calls that succeed. A conversation entry (hot tier) and a goal    *)
(* entry that is a row only (importance 0.2) or in the warm tier (0.6).    *)

NextIo ==
    \/ \E e \in {<<ContentA, "conversation">>, <<ContentF, "goal">>}, importance \in {20, 60} :
         store_memory(e[1], e[2], "general", importance, <<>>, IoMaxStores)
    \/ \E e \in {<<ContentA, "conversation">>, <<ContentF, "goal">>}, importance \in {20, 60} :
         store_memory_unavailable(e[1], e[2], "general", importance, <<>>, IoMaxStores)
    \/ retrieve_memories(<<>>, {}, {}, {}, 3, 0, IoMaxRetrieves)
    \/ retrieve_memories_unavailable(<<>>, {}, {}, {}, 3, 0, IoMaxRetrieves)
    \/ Tick(1, MaxTicks)

SpecIo == Init /\ [][NextIo]_vars

\* C17: a store_memory call whose write to the database fails returns the
\* empty id and leaves no new entry in the hot map, the warm map or the
\* index; a retrieve_memories call whose reads of the database fail returns
\* the matching entries of the hot and warm maps.
C17_FailsClosed ==
    [][/\ (StoreStep /\ last'.op = "store_unavailable")
          => /\ last'.ret = NoId
             /\ Keys(hot_memories') \cup Keys(warm_memories') \subseteq Cached
             /\ index' = index
       /\ (RetrieveStep /\ last'.op = "retrieve_unavailable")
          => {last'.result[i].id : i \in DOMAIN last'.result} = Cached]_vars

----------------------------------------------------------------------------
(* Specification SpecLoad: a new run over the database of the last one.    *)
(* Hot rows of different importance (conversation, relationship), a row    *)
(* outside the hot tier (goal, importance 0.2), rows that become malformed *)
(* and restarts of the process.                                            *)

NextLoad ==
    \/ \E e \in {<<ContentA, "conversation", 90>>, <<ContentF, "relationship", 50>>,
                 <<ContentC, "goal", 20>>} :
         store_memory(e[1], e[2], "general", e[3], <<>>, LoadMaxStores)
    \/ retrieve_memories(<<>>, {}, {}, {}, 3, 0, MaxRetrieves)
    \/ CorruptRow
    \/ Restart(LoadMaxRestarts)
    \/ Tick(1, MaxTicks)

SpecLoad == Init /\ [][NextLoad]_vars

\* the step is a restart
RestartStep == calls'.other = calls.other + 1 /\ last'.op = "restart"

\* the rows of the hot tier that are well-formed
GoodHotRows ==
    {i \in DOMAIN db : db[i].storage_tier = "hot" /\ _row_to_memory(db[i]) # RowError}

\* C18: a malformed row is skipped by itself. At start-up every well-formed
\* row of the hot tier is loaded into the hot map and indexed when the hot
\* rows are no more than max_hot_memories, wherever the malformed rows come
\* in the order of the load; and retrieve_memories returns no malformed row.
C18_MalformedRowSkipped ==
    [][/\ (RestartStep
             /\ Cardinality({i \in DOMAIN db : db[i].storage_tier = "hot"}) <= max_hot_memories)
          => \A i \in GoodHotRows :
               /\ HasKey(hot_memories', i)
               /\ i \in {index'.timestamp_index[k][2] : k \in DOMAIN index'.timestamp_index}
       /\ RetrieveStep
          => \A k \in DOMAIN last'.result : last'.result[k].memory_type \in MemoryType]_vars

----------------------------------------------------------------------------
(* Specification SpecRound: export of the store and import of the file     *)
(* into a store over a fresh database. Entries of two types in one         *)
(* category, two of them with the same content.                            *)

NextRound ==
    \/ \E e \in {<<ContentA, "conversation">>, <<ContentA, "goal">>, <<ContentF, "goal">>} :
         store_memory(e[1], e[2], "general", 50, <<>>, RoundMaxStores)
    \/ export_unified_data(RoundMaxSteps)
    \/ file # NoFile /\ Fresh(RoundMaxSteps)
    \/ file # NoFile /\ import_unified_data(RoundMaxSteps)
    \/ Tick(1, MaxTicks)

SpecRound == Init /\ [][NextRound]_vars

\* the (content, memory_type, category) triples of a set of entries or of
\* the records of a file
Triples(entries) == {<<e.content, e.memory_type, e.category>> : e \in entries}

\* C16: export_unified_data followed by import_unified_data into a store
\* over a fresh database gives a store with the same set of (content, type,
\* category) triples: the file holds the triples of the store it was
\* exported from, and the fresh store holds the triples of the file after
\* the import.
C16_RoundTrip ==
    [][/\ last'.op = "export_unified"
          => Triples(Range(file'.records)) = Triples(AllEntries)
       /\ (last'.op = "import_unified" /\ last.op = "fresh" /\ file.format = "unified")
          => Triples(AllEntries') = Triples(Range(file.records))]_vars

----------------------------------------------------------------------------
(* Specification SpecImport: imports of files with a malformed record, a   *)
(* record without the key content, before, between and behind two records  *)
(* that are well-formed, into a store that may hold an entry already.      *)

GoodA == [content |-> ContentA, memory_type |-> "conversation", category |-> "general",
          importance |-> 50, tags |-> <<>>]
GoodF == [content |-> ContentF, memory_type |-> "conversation", category |-> "general",
          importance |-> 50, tags |-> <<>>]
Bad == [memory_type |-> "conversation", category |-> "general", importance |-> 50,
        tags |-> <<>>]

ImportFiles ==
    {[format |-> fmt, records |-> recs] :
        fmt \in {"unified", "legacy"},
        recs \in {<<Bad, GoodA, GoodF>>, <<GoodA, Bad, GoodF>>, <<GoodA, GoodF, Bad>>,
                  <<GoodA, GoodF>>}}

NextImport ==
    \/ \E importance \in {50, 90} :
         store_memory(ContentC, "conversation", "general", importance, <<>>, ImportMaxStores)
    \/ \E f \in ImportFiles : WriteFile(f)
    \/ import_unified_data(ImportMaxSteps)
    \/ import_memories(ImportMaxSteps)
    \/ Tick(1, MaxTicks)

SpecImport == Init /\ [][NextImport]_vars

\* the step is an import of the file by the importer of its format
ImportStep ==
    /\ calls'.other = calls.other + 1
    /\ \/ last'.op = "import_unified" /\ file.format = "unified"
       \/ last'.op = "import_legacy" /\ file.format = "legacy"

\* C19: an import of a file with a malformed record stores every
\* well-formed record of the file, those before and those behind the
\* malformed one, and keeps every entry stored before.
C19_PartialImport ==
    [][ImportStep
         => /\ \A k \in DOMAIN file.records :
                 "content" \in DOMAIN file.records[k]
                   => \E e \in AllEntries' :
                        /\ e.content = file.records[k].content
                        /\ e.category = file.records[k].category
            /\ \A e \in AllEntries : \E e2 \in AllEntries' : e2.id = e.id]_vars


----------------------------------------------------------------------------
(* Threads. store_memory and retrieve_memories are called by the threads   *)
(* of one process. Each call runs inside `with self._lock`, the RLock of   *)
(* the UnifiedMemorySystem object; a thread is at one of the statements of *)
(* the call (pc), and the clock moves on between any two statements. The   *)
(* lock of the index is taken when search or add_entry is entered and      *)
(* released when it returns; both are called under the lock of the system. *)

\* every variable but threads and calls
Shared == <<now, hot_memories, warm_memories, db, index, operation_count, last, file>>

\* the thread record of t
Thread(t) == threads.thread[t]

\* RLock.acquire as `with self._lock` enters it: the lock is free, or t owns
\* it already (the lock is re-entrant)
Acquirable(lock, t) == lock = NoThread \/ lock = t

\* a lock that stays with its owner when the with block is left
Released_Kept(lock, t) == lock

\* RLock.release as `with self._lock` leaves it, with a return or an exception
Released(lock, t) == NoThread

\* an index method that returns with the lock of the index still taken
IndexReleased_Kept(lock, t) == lock

\* `with self._lock` of search and add_entry is left: the lock of the index
\* is free again
IndexReleased(lock, t) == NoThread

\* the statements at which the call enters a method of the index
IndexCalls == {"check", "index", "search"}

\* `with self._lock` of UnifiedMemoryIndex.search (called by
\* _check_for_duplicates and retrieve_memories) and add_entry: t waits until
\* the lock of the index is free and takes it
acquire_index(t) ==
    /\ Thread(t).pc \in IndexCalls
    /\ threads.index_lock # t
    /\ Acquirable(threads.index_lock, t)
    /\ threads' = [threads EXCEPT !.index_lock = t]
    /\ UNCHANGED <<calls, Shared>>

\* thread t calls store_memory and reaches `with self._lock`
call_store_memory(t, content, memory_type, category, importance, tags, max_calls) ==
    /\ Thread(t).pc = "idle"
    /\ calls.store < max_calls
    /\ threads' = [threads EXCEPT !.thread[t] =
                     [Idle EXCEPT !.pc = "lock", !.op = "store",
                                  !.args = [content |-> content, memory_type |-> memory_type,
                                            category |-> category, importance |-> importance,
                                            tags |-> tags]]]
    /\ calls' = [calls EXCEPT !.store = @ + 1]
    /\ UNCHANGED Shared

\* thread t calls retrieve_memories and reaches `with self._lock`
call_retrieve_memories(t, query, memory_types, categories, tags, max_results, min_importance, max_calls) ==
    /\ Thread(t).pc = "idle"
    /\ calls.retrieve < max_calls
    /\ threads' = [threads EXCEPT !.thread[t] =
                     [Idle EXCEPT !.pc = "lock", !.op = "retrieve",
                                  !.args = [query |-> query, memory_types |-> memory_types,
                                            categories |-> categories, tags |-> tags,
                                            max_results |-> max_results,
                                            min_importance |-> min_importance]]]
    /\ calls' = [calls EXCEPT !.retrieve = @ + 1]
    /\ UNCHANGED Shared

\* `with self._lock` of store_memory and of retrieve_memories: t waits until
\* the lock is free and takes it
acquire(t) ==
    /\ Thread(t).pc = "lock"
    /\ Acquirable(threads.lock, t)
    /\ threads' = [threads EXCEPT !.lock = t,
                                  !.thread[t].pc = IF Thread(t).op = "store"
                                                   THEN "check" ELSE "search"]
    /\ UNCHANGED <<calls, Shared>>

\* store_memory builds the entry and _check_for_duplicates searches the index
\* and reads the candidates, up to the first similar one (dup)
check_for_duplicates(t) ==
    /\ Thread(t).pc = "check"
    /\ threads.index_lock = t
    /\ LET a == Thread(t).args
           memory == NewEntry(a.content, a.memory_type, a.category, a.importance, a.tags, now)
       IN  \E similar_candidates \in
                search(index, <<>>, {a.memory_type}, {a.category}, {}, DuplicateMaxResults) :
             LET dups == DuplicatesAmong(hot_memories, warm_memories, db,
                                         similar_candidates, memory)
             IN  IF dups # {}
                 THEN \E c \in dups :
                        threads' = [threads EXCEPT
                                      !.index_lock = IndexReleased(threads.index_lock, t),
                                      !.thread[t].pc = "merge",
                                      !.thread[t].memory = memory,
                                      !.thread[t].dup = c]
                 ELSE threads' = [threads EXCEPT
                                    !.index_lock = IndexReleased(threads.index_lock, t),
                                    !.thread[t].pc = "place",
                                    !.thread[t].memory = memory]
    /\ UNCHANGED <<calls, Shared>>

\* _check_for_duplicates updates the similar entry and persists it; the call
\* will return ""
merge_duplicate(t) ==
    /\ Thread(t).pc = "merge"
    /\ LET s1 == MergeInto([hot |-> hot_memories, warm |-> warm_memories, db |-> db],
                           Thread(t).dup, Thread(t).memory, now)
       IN  /\ hot_memories' = s1.hot
           /\ warm_memories' = s1.warm
           /\ db' = s1.db
    /\ threads' = [threads EXCEPT !.thread[t].pc = "return", !.thread[t].ret = NoId]
    /\ UNCHANGED <<now, index, operation_count, calls, last, file>>

\* self._store_in_tier(memory)
store_in_tier(t) ==
    /\ Thread(t).pc = "place"
    /\ LET s2 == _store_in_tier([hot |-> hot_memories, warm |-> warm_memories, db |-> db],
                                Thread(t).memory)
       IN  /\ hot_memories' = s2.hot
           /\ warm_memories' = s2.warm
           /\ db' = s2.db
           /\ threads' = [threads EXCEPT !.thread[t].pc = "index",
                                         !.thread[t].memory = PlacedEntry(s2, Thread(t).memory)]
    /\ UNCHANGED <<now, index, operation_count, calls, last, file>>

\* self.index.add_entry(memory_id, memory)
index_add_entry(t) ==
    /\ Thread(t).pc = "index"
    /\ threads.index_lock = t
    /\ index' = add_entry(index, Thread(t).memory.id, Thread(t).memory)
    /\ threads' = [threads EXCEPT !.index_lock = IndexReleased(threads.index_lock, t),
                                  !.thread[t].pc = "persist"]
    /\ UNCHANGED <<now, hot_memories, warm_memories, db, operation_count, calls, last, file>>

\* self._persist_memory(memory) and the count of the operation; the call goes
\* on to _perform_cleanup when the count is a multiple of cleanup_interval
persist_memory(t) ==
    /\ Thread(t).pc = "persist"
    /\ db' = _persist_memory(db, Thread(t).memory)
    /\ operation_count' = operation_count + 1
    /\ threads' = [threads EXCEPT !.thread[t].pc =
                                     IF (operation_count + 1) % cleanup_interval = 0
                                     THEN "cleanup" ELSE "return",
                                  !.thread[t].ret = Thread(t).memory.id]
    /\ UNCHANGED <<now, hot_memories, warm_memories, index, calls, last, file>>

\* self._perform_cleanup(), called by store_memory before its return
perform_cleanup(t) ==
    /\ Thread(t).pc = "cleanup"
    /\ db' = _perform_cleanup(db, now)
    /\ threads' = [threads EXCEPT !.thread[t].pc = "return"]
    /\ UNCHANGED <<now, hot_memories, warm_memories, index, operation_count, calls, last, file>>

\* the body of retrieve_memories: search, read, count the accesses, rank
search_and_rank(t) ==
    /\ Thread(t).pc = "search"
    /\ threads.index_lock = t
    /\ LET a == Thread(t).args
       IN  \E o \in RetrieveOutcomes(Sys, a.query, a.memory_types, a.categories, a.tags,
                                     a.max_results, a.min_importance, now) :
             /\ hot_memories' = o.hot
             /\ warm_memories' = o.warm
             /\ threads' = [threads EXCEPT
                              !.index_lock = IndexReleased(threads.index_lock, t),
                              !.thread[t].pc = "return",
                              !.thread[t].result = o.result]
    /\ UNCHANGED <<now, db, index, operation_count, calls, last, file>>

\* the return of either call: it leaves the with block, and the lock
return_call(t) ==
    /\ Thread(t).pc = "return"
    /\ threads' = [threads EXCEPT
                     !.lock = Released(threads.lock, t),
                     !.thread[t] = Idle,
                     !.log = Append(@, [thread |-> t, op |-> Thread(t).op,
                                        args |-> Thread(t).args, ret |-> Thread(t).ret])]
    /\ last' = [op |-> Thread(t).op, at |-> now, args |-> Thread(t).args,
                ret |-> Thread(t).ret, result |-> Thread(t).result, swept |-> NoRows]
    /\ UNCHANGED <<now, hot_memories, warm_memories, db, index, operation_count, calls, file>>

\* the clock moves on while threads are inside their calls
ThreadTick(delta, max_calls) ==
    /\ calls.tick < max_calls
    /\ now' = now + delta
    /\ calls' = [calls EXCEPT !.tick = @ + 1]
    /\ UNCHANGED <<hot_memories, warm_memories, db, index, operation_count, last, file, threads>>

\* the statements of a call that thread t runs once it owns the lock
Body(t) ==
    \/ acquire_index(t)
    \/ check_for_duplicates(t)
    \/ merge_duplicate(t)
    \/ store_in_tier(t)
    \/ index_add_entry(t)
    \/ persist_memory(t)
    \/ perform_cleanup(t)
    \/ search_and_rank(t)
    \/ return_call(t)

\* thread t is inside the with block of a call
InBody(t) == Thread(t).pc \notin {"idle", "lock"}

----------------------------------------------------------------------------
(* Specification SpecThreads: two threads store the same content with      *)
(* words (A), a content without any word (P), with two importances, and    *)
(* retrieve, in every interleaving of their statements.                    *)

NextThreads ==
    \/ \E t \in Threads, content \in {ContentA, ContentP}, importance \in {50, 90} :
         call_store_memory(t, content, "conversation", "dialogue", importance, <<>>, ThreadMaxStores)
    \/ \E t \in Threads :
         call_retrieve_memories(t, <<>>, {}, {}, {}, 1, 0, ThreadMaxRetrieves)
    \/ \E t \in Threads : acquire(t)
    \/ \E t \in Threads : acquire_index(t)
    \/ \E t \in Threads : check_for_duplicates(t)
    \/ \E t \in Threads : merge_duplicate(t)
    \/ \E t \in Threads : store_in_tier(t)
    \/ \E t \in Threads : index_add_entry(t)
    \/ \E t \in Threads : persist_memory(t)
    \/ \E t \in Threads : perform_cleanup(t)
    \/ \E t \in Threads : search_and_rank(t)
    \/ \E t \in Threads : return_call(t)
    \/ ThreadTick(1, ThreadMaxTicks)

SpecThreads == Init /\ [][NextThreads]_vars


\* no thread is inside a call
Quiescent == \A t \in Threads : Thread(t).pc = "idle"

\* the store_memory calls of the log that passed the content
StoresOf(content) ==
    {i \in DOMAIN threads.log :
        threads.log[i].op = "store" /\ threads.log[i].args.content = content}

\* the ids of the entries that hold the content
HoldersOf(content) ==
    {i \in DOMAIN db \cup Cached : Fetch(i) # NoEntry /\ Fetch(i).content = content}

\* C21: store_memory calls of two threads never overlap inside the with
\* block, and once the threads that stored one content (same type, same
\* category, no retrieval in between) have all returned there is exactly one
\* entry with that content: its access count is the number of those calls
\* less the one that created it, and its importance is the greatest one
\* passed.
C21_MergeAtomic ==
    /\ \A t1, t2 \in Threads : t1 # t2 => ~(InBody(t1) /\ InBody(t2))
    /\ (Quiescent /\ calls.retrieve = 0) =>
         \A content \in {ContentA, ContentP} :
            StoresOf(content) # {} =>
              /\ Cardinality(HoldersOf(content)) = 1
              /\ \A i \in HoldersOf(content) :
                   /\ Fetch(i).frequency_accessed = Cardinality(StoresOf(content)) - 1
                   /\ \A k \in StoresOf(content) :
                        Fetch(i).importance >= threads.log[k].args.importance
                   /\ \E k \in StoresOf(content) :
                        Fetch(i).importance = threads.log[k].args.importance

\* C22: while a thread runs _perform_cleanup it does not own the lock of the
\* system, so that no other call waits for the sweep.
C22_SweepHoldsNoLock ==
    \A t \in Threads : Thread(t).pc = "cleanup" => threads.lock # t


----------------------------------------------------------------------------
(* Specification SpecThreadsFair: the threads under a fair scheduler. A    *)
(* thread that owns the lock goes on running (weak fairness of the body of *)
(* its call), and a thread that waits for a lock that is free again and    *)
(* again gets it (strong fairness of acquire).                             *)

NextFair ==
    \/ \E t \in Threads, content \in {ContentA, ContentP} :
         call_store_memory(t, content, "conversation", "dialogue", 50, <<>>, FairMaxStores)
    \/ \E t \in Threads :
         call_retrieve_memories(t, <<>>, {}, {}, {}, 1, 0, FairMaxRetrieves)
    \/ \E t \in Threads : acquire(t)
    \/ \E t \in Threads : acquire_index(t)
    \/ \E t \in Threads : check_for_duplicates(t)
    \/ \E t \in Threads : merge_duplicate(t)
    \/ \E t \in Threads : store_in_tier(t)
    \/ \E t \in Threads : index_add_entry(t)
    \/ \E t \in Threads : persist_memory(t)
    \/ \E t \in Threads : perform_cleanup(t)
    \/ \E t \in Threads : search_and_rank(t)
    \/ \E t \in Threads : return_call(t)
    \/ ThreadTick(1, FairMaxTicks)

SpecThreadsFair ==
    Init /\ [][NextFair]_vars /\ \A t \in Threads : WF_vars(Body(t)) /\ SF_vars(acquire(t))

\* C23: under the fair scheduler every store_memory or retrieve_memories
\* call that a thread has started returns: the thread is outside any call
\* again at some later time.
C23_EveryCallReturns ==
    \A t \in Threads : (Thread(t).pc # "idle") ~> (Thread(t).pc = "idle")

\* a thread waits for the lock while another one runs the cleanup of its
\* store_memory call
C23_Witness ==
    \E t1, t2 \in Threads :
        /\ t1 # t2
        /\ Thread(t1).pc = "lock"
        /\ Thread(t2).pc = "cleanup"
        /\ threads.lock = t2


----------------------------------------------------------------------------
(* Specification SpecSearch: UnifiedMemoryIndex.search called on the index *)
(* of a store that holds up to three entries of two types, with and        *)
(* without a tag, created at up to three clock readings.                   *)

\* UnifiedMemoryIndex.search, called by a client of the index
search_index(query, memory_types, categories, tags, max_results, max_calls) ==
    /\ calls.other < max_calls
    /\ \E ids \in search(index, query, memory_types, categories, tags, max_results) :
         last' = [op |-> "search", at |-> now,
                  args |-> [query |-> query, memory_types |-> memory_types,
                            categories |-> categories, tags |-> tags,
                            max_results |-> max_results],
                  ret |-> NoId, result |-> <<ids>>, swept |-> NoRows]
    /\ calls' = [calls EXCEPT !.other = @ + 1]
    /\ UNCHANGED <<now, hot_memories, warm_memories, db, index, operation_count, file, threads>>

NextSearch ==
    \/ \E e \in {<<ContentA, "goal">>, <<ContentF, "event">>, <<ContentP, "goal">>},
          tags \in {<<>>, <<"t1">>} :
         store_memory(e[1], e[2], "general", 60, tags, SearchMaxStores)
    \/ \E query \in {<<>>, <<"f">>},
          memory_types \in {{}, {"goal"}},
          categories \in {{}, {"general"}},
          tags \in {{}, {"t1"}},
          max_results \in {1, 2, 10} :
         search_index(query, memory_types, categories, tags, max_results, SearchMaxCalls)
    \/ Tick(1, SearchMaxTicks)

SpecSearch == Init /\ [][NextSearch]_vars

\* the latest call was a search; last.result[1] is the set of ids it returned
Searched == last.op = "search"

\* the candidate sets of the filters that the latest search was given
FilterSets ==
    LET a == last.args
        query_words == {Lower(a.query[i]) : i \in DOMAIN a.query} \cap WordChars
    IN  (IF Len(a.query) > 0 THEN {IdsOf(index.content_index, query_words)} ELSE {})
        \cup (IF a.memory_types # {} THEN {IdsOf(index.type_index, a.memory_types)} ELSE {})
        \cup (IF a.categories # {} THEN {IdsOf(index.category_index, a.categories)} ELSE {})
        \cup (IF a.tags # {} THEN {IdsOf(index.tag_index, a.tags)} ELSE {})

\* C24: every id that search returns belongs to the candidate set of every
\* filter that was supplied and whose set is not empty, and search returns
\* at most max_results ids.
C24_SearchIntersects ==
    Searched =>
        /\ Cardinality(last.result[1]) <= last.args.max_results
        /\ \A ids \in FilterSets : ids # {} => last.result[1] \subseteq ids

\* the timestamp under which the index holds id i
IndexedAt(i) ==
    CHOOSE t \in {index.timestamp_index[k][1] : k \in DOMAIN index.timestamp_index} :
        \E k \in DOMAIN index.timestamp_index : index.timestamp_index[k] = <<t, i>>

\* C25: a search without query and without filters returns min(max_results,
\* n) of the n indexed ids, and no indexed id that it leaves out has a
\* greater timestamp than one that it returns.
C25_NoFilterMostRecent ==
    (Searched /\ FilterSets = {}) =>
        /\ Cardinality(last.result[1]) = Min(last.args.max_results, Cardinality(IndexedIds))
        /\ last.result[1] \subseteq IndexedIds
        /\ \A i \in last.result[1], j \in IndexedIds \ last.result[1] :
             IndexedAt(i) >= IndexedAt(j)


----------------------------------------------------------------------------
(* Specification SpecPlace: placement and overflow. Four entries that the  *)
(* duplicate check keeps apart, one of a type that is always hot, the      *)
(* others with importances on both sides of the two thresholds, enough of  *)
(* them to overflow both maps.                                             *)

\* the entries stored: (content, type, importances)
PlaceInputs ==
    {<<ContentA, "goal", 39>>, <<ContentA, "goal", 40>>,
     <<ContentC, "goal", 69>>, <<ContentC, "goal", 70>>,
     <<ContentF, "conversation", 39>>, <<ContentP, "goal", 70>>}

NextPlace ==
    \/ \E e \in PlaceInputs :
         store_memory(e[1], e[2], "general", e[3], <<>>, PlaceMaxStores)
    \/ retrieve_memories(<<>>, {}, {}, {}, 1, 0, PlaceMaxRetrieves)
    \/ Tick(1, PlaceMaxTicks)

SpecPlace == Init /\ [][NextPlace]_vars

\* the step is a store_memory call that created an entry
CreateStep == StoreStep /\ last'.ret # NoId

\* the table as the creating call wrote it, before its cleanup if it made one
WrittenTable == IF last'.swept = NoRows THEN db' ELSE last'.swept

\* C26: a creating store_memory places the entry by its importance and type
\* only. Importance >= 0.7 or type conversation / relationship: hot map and
\* tier hot; otherwise importance >= 0.4: warm map and tier warm; otherwise
\* tier cold and both maps as they were. When the placement overflows the
\* map, the entry is there or has been demoted by one tier.
C26_PlaceByRule ==
    [][CreateStep =>
        LET id == last'.ret
            a == last'.args
            rule == IF a.importance >= 70 \/ a.memory_type \in {"conversation", "relationship"}
                    THEN "hot"
                    ELSE IF a.importance >= 40 THEN "warm" ELSE "cold"
            row == WrittenTable[id]
            InHot == /\ HasKey(hot_memories', id)
                     /\ Get(hot_memories', id).storage_tier = "hot"
                     /\ row.storage_tier = "hot"
            InWarm == /\ HasKey(warm_memories', id)
                      /\ Get(warm_memories', id).storage_tier = "warm"
                      /\ row.storage_tier = "warm"
            InCold == row.storage_tier = "cold"
        IN  /\ rule = "hot" =>
                 IF HasKey(hot_memories, id) \/ Len(hot_memories) < max_hot_memories
                 THEN InHot /\ warm_memories' = warm_memories
                 ELSE InHot \/ (InWarm /\ ~HasKey(hot_memories', id))
            /\ rule = "warm" =>
                 /\ hot_memories' = hot_memories
                 /\ IF HasKey(warm_memories, id) \/ Len(warm_memories) < max_warm_memories
                    THEN InWarm
                    ELSE InWarm \/ (InCold /\ ~HasKey(warm_memories', id))
            /\ rule = "cold" =>
                 /\ hot_memories' = hot_memories
                 /\ warm_memories' = warm_memories
                 /\ InCold]_vars

\* stores of importance exactly 0.7, 0.4 and just below have placed entries
\* in the hot map, in the warm map and in the table only
C26_Witness ==
    /\ \E i \in DOMAIN hot_memories :
         hot_memories[i].importance = 70 /\ hot_memories[i].memory_type = "goal"
    /\ \E i \in DOMAIN warm_memories :
         warm_memories[i].importance = 40 /\ warm_memories[i].storage_tier = "warm"
    /\ \E i \in DOMAIN db :
         db[i].importance = 39 /\ db[i].storage_tier = "cold" /\ i \notin Cached

\* C27: between calls the hot map holds at most max_hot_memories entries and
\* the warm map at most max_warm_memories.
C27_TiersBounded ==
    /\ Len(hot_memories) <= max_hot_memories
    /\ Len(warm_memories) <= max_warm_memories


----------------------------------------------------------------------------
(* Specification SpecFetch: _get_memory_by_id called for the id of a hot,  *)
(* a warm or a cold entry and for an id that no entry has, after stores    *)
(* and a retrieval that leave the cached entries and their rows different  *)
(* and, with two wordless stores at one clock reading, one id in both maps.*)

\* an id that no entry has
UnknownId == <<ContentB, "goal", "general", 0>>

\* a lookup that puts the entry it read from the table into the hot map
FetchOutcome_Promote(sys, memory_id) ==
    LET entry == _get_memory_by_id(sys.hot, sys.warm, sys.db, memory_id)
        miss == ~HasKey(sys.hot, memory_id) /\ ~HasKey(sys.warm, memory_id)
        promoted == [entry EXCEPT !.storage_tier = "hot"]
    IN  IF miss /\ entry # NoEntry
        THEN [hot |-> Put(sys.hot, promoted), warm |-> sys.warm,
              db |-> _persist_memory(sys.db, promoted), entry |-> promoted, miss |-> miss]
        ELSE [hot |-> sys.hot, warm |-> sys.warm, db |-> sys.db,
              entry |-> entry, miss |-> miss]

\* _get_memory_by_id on the system state sys: the entry it returns, whether
\* it counted a cache miss (cache_misses += 1, else cache_hits += 1), and
\* the maps and the table as it leaves them
FetchOutcome(sys, memory_id) ==
    [hot |-> sys.hot, warm |-> sys.warm, db |-> sys.db,
     entry |-> _get_memory_by_id(sys.hot, sys.warm, sys.db, memory_id),
     miss |-> ~HasKey(sys.hot, memory_id) /\ ~HasKey(sys.warm, memory_id)]

\* UnifiedMemorySystem._get_memory_by_id, called for a stored or unknown id
get_memory_by_id(max_calls) ==
    /\ calls.other < max_calls
    /\ \E memory_id \in DOMAIN db \cup Cached \cup {UnknownId} :
         LET o == FetchOutcome(Sys, memory_id)
         IN  /\ hot_memories' = o.hot
             /\ warm_memories' = o.warm
             /\ db' = o.db
             /\ last' = [op |-> "fetch", at |-> now, args |-> [memory_id |-> memory_id],
                         ret |-> NoId, result |-> <<o.entry, o.miss>>, swept |-> NoRows]
    /\ calls' = [calls EXCEPT !.other = @ + 1]
    /\ UNCHANGED <<now, index, operation_count, file, threads>>

NextFetch ==
    \/ \E e \in PlaceInputs \cup {<<ContentP, "goal", 40>>} :
         store_memory(e[1], e[2], "general", e[3], <<>>, FetchMaxStores)
    \/ retrieve_memories(<<>>, {}, {}, {}, 1, 0, FetchMaxRetrieves)
    \/ get_memory_by_id(FetchMaxCalls)
    \/ Tick(1, MaxTicks)

SpecFetch == Init /\ [][NextFetch]_vars

\* the step is a _get_memory_by_id call
FetchStep == calls'.other = calls.other + 1 /\ last'.op = "fetch"

\* C29: _get_memory_by_id returns the entry of the hot map if the id is
\* there, else the one of the warm map, else the row of the table; a hit in
\* the table counts as a cache miss, and the call leaves the hot map, the
\* warm map and the table, with the tier of the entry, as they were.
C29_FetchOrderNoPromotion ==
    [][FetchStep =>
        LET memory_id == last'.args.memory_id
            entry == last'.result[1]
            miss == last'.result[2]
        IN  /\ HasKey(hot_memories, memory_id) =>
                 entry = Get(hot_memories, memory_id) /\ ~miss
            /\ (~HasKey(hot_memories, memory_id) /\ HasKey(warm_memories, memory_id)) =>
                 entry = Get(warm_memories, memory_id) /\ ~miss
            /\ (memory_id \notin Cached /\ memory_id \in DOMAIN db) =>
                 entry = db[memory_id] /\ miss
            /\ (memory_id \notin Cached /\ memory_id \notin DOMAIN db) =>
                 entry = NoEntry /\ miss
            /\ hot_memories' = hot_memories
            /\ warm_memories' = warm_memories
            /\ db' = db]_vars

\* a call found its entry in the table only: a cold entry, never cached or
\* demoted out of the warm map
C29_Witness ==
    /\ last.op = "fetch"
    /\ last.result[2]
    /\ last.result[1] # NoEntry
    /\ last.result[1].storage_tier = "cold"
    /\ last.args.memory_id \notin Cached


----------------------------------------------------------------------------
(* The frame of a merge, under SpecRead: stores that repeat the content of *)
(* a hot, a warm or a cold entry with a lower or a higher importance.      *)

\* the step is a store_memory call that merged into an existing entry
MergeStep == StoreStep /\ last'.ret = NoId

\* C30: a store_memory call that finds a duplicate changes one existing
\* entry only: its access count grows by one, its last access is the time of
\* the call, its importance is the greater of its own and the new one, and
\* every other field, the tier included, is as before; the entry is written
\* to its row. No other entry or row changes, the maps keep their keys, and
\* the index and the operation count are as before.
C30_MergeFrame ==
    [][MergeStep =>
        /\ \E c \in DOMAIN db \cup Cached :
             /\ Fetch(c) # NoEntry
             /\ FetchAfter(c) =
                  [Fetch(c) EXCEPT
                     !.frequency_accessed = @ + 1,
                     !.last_accessed = last'.at,
                     !.importance = Max(@, last'.args.importance)]
             /\ db'[c] = FetchAfter(c)
             /\ DOMAIN db' = DOMAIN db \cup {c}
             /\ \A i \in (DOMAIN db \cup Cached) \ {c} :
                  /\ FetchAfter(i) = Fetch(i)
                  /\ i \in DOMAIN db => db'[i] = db[i]
        /\ Keys(hot_memories') = Keys(hot_memories)
        /\ Keys(warm_memories') = Keys(warm_memories)
        /\ Len(hot_memories') = Len(hot_memories)
        /\ Len(warm_memories') = Len(warm_memories)
        /\ index' = index
        /\ operation_count' = operation_count]_vars

\* a merge raised the importance of a cold entry from 0.2 to 0.6 and left
\* it cold, in no map
C30_Witness ==
    /\ last.op = "store"
    /\ last.ret = NoId
    /\ last.args.importance = 60
    /\ \E i \in DOMAIN db \ Cached :
         /\ db[i].content = last.args.content
         /\ db[i].storage_tier = "cold"
         /\ db[i].importance = 60
         /\ db[i].frequency_accessed >= 1
         /\ db[i].last_accessed = last.at


----------------------------------------------------------------------------
(* The trigger of the cleanup, under Spec: stores that create an entry and *)
(* stores that merge into one.                                             *)

\* C31: the k-th store_memory call ends with _perform_cleanup exactly when k
\* is a multiple of cleanup_interval, whether the call created an entry or
\* merged into one; so k calls have made k div cleanup_interval cleanups.
C31_SweepEveryInterval ==
    [][StoreStep =>
        ((last'.swept # NoRows) <=> (calls'.store % cleanup_interval = 0))]_vars


----------------------------------------------------------------------------
(* The state a cleanup leaves, under SpecSweep.                            *)

\* C32: after a cleanup every entry of importance below 0.4 whose last
\* access is older than the retention window has a cold row and is in
\* neither map, and the tier in the row of every cached entry is the tier of
\* the map that holds it.
C32_SweepRetiers ==
    Swept =>
        /\ \A i \in DOMAIN db \cup Cached :
             (/\ Fetch(i) # NoEntry
              /\ Fetch(i).last_accessed < last.at - RetentionHours
              /\ Fetch(i).importance < ColdImportance)
               => /\ i \notin Cached
                  /\ i \in DOMAIN db
                  /\ db[i].storage_tier = "cold"
        /\ \A i \in DOMAIN db :
             /\ HasKey(hot_memories, i) => db[i].storage_tier = "hot"
             /\ (HasKey(warm_memories, i) /\ ~HasKey(hot_memories, i))
                  => db[i].storage_tier = "warm"

\* every id that some list of the index holds
AllIndexedIds ==
    IndexedIds
      \cup {index.importance_index[i][2] : i \in DOMAIN index.importance_index}
      \cup IdsOf(index.type_index, MemoryType)
      \cup IdsOf(index.category_index, Categories)
      \cup IdsOf(index.tag_index, TagSet)
      \cup IdsOf(index.content_index, WordChars)

\* C33: every id that the index holds is the id of an entry that exists, in
\* the hot map, in the warm map or as a row, also after a cleanup that
\* deleted rows.
C33_NoDanglingIndex == \A i \in AllIndexedIds : Fetch(i) # NoEntry


----------------------------------------------------------------------------
(* Specification SpecIndex: a client of UnifiedMemoryIndex adds an entry   *)
(* to the index of a store that holds up to two entries and removes it     *)
(* again, passing the entry it added.                                      *)

\* list.remove(x) under `if x in list`: the first occurrence goes
RemoveFirst(lst, x) ==
    IF x \notin Range(lst) THEN lst
    ELSE LET k == CHOOSE i \in DOMAIN lst : lst[i] = x /\ \A j \in 1..(i - 1) : lst[j] # x
         IN  SubSeq(lst, 1, k - 1) \o SubSeq(lst, k + 1, Len(lst))

\* RemoveFirst n times: one per occurrence of a tag in entry.tags
RECURSIVE RemoveTimes(_, _, _)
RemoveTimes(lst, x, n) == IF n = 0 THEN lst ELSE RemoveTimes(RemoveFirst(lst, x), x, n - 1)

\* the tuples of an ordered list whose id is not memory_id, in their order
RECURSIVE WithoutId(_, _)
WithoutId(lst, memory_id) ==
    IF lst = <<>> THEN <<>>
    ELSE IF Head(lst)[2] = memory_id THEN WithoutId(Tail(lst), memory_id)
    ELSE <<Head(lst)>> \o WithoutId(Tail(lst), memory_id)

\* a removal that leaves the two ordered lists as they are
remove_entry_KeepsLists(ix, memory_id, entry) ==
    [ix EXCEPT
       !.type_index[entry.memory_type] = RemoveFirst(@, memory_id),
       !.category_index[entry.category] = RemoveFirst(@, memory_id)]

\* UnifiedMemoryIndex.remove_entry
remove_entry(ix, memory_id, entry) ==
    [type_index |-> [ix.type_index EXCEPT ![entry.memory_type] = RemoveFirst(@, memory_id)],
     category_index |-> [ix.category_index EXCEPT ![entry.category] = RemoveFirst(@, memory_id)],
     tag_index |-> [t \in TagSet |->
                       RemoveTimes(ix.tag_index[t], memory_id,
                                   Cardinality({j \in DOMAIN entry.tags : entry.tags[j] = t}))],
     content_index |-> [w \in WordChars |->
                           IF w \in Words(entry.content)
                           THEN RemoveFirst(ix.content_index[w], memory_id)
                           ELSE ix.content_index[w]],
     timestamp_index |-> WithoutId(ix.timestamp_index, memory_id),
     importance_index |-> WithoutId(ix.importance_index, memory_id)]

\* the entries the client adds: with words and without, with a tag given
\* once and twice
IndexInputs ==
    {<<ContentA, "goal", <<>>>>, <<ContentF, "event", <<"t1">>>>,
     <<ContentF, "goal", <<"t1", "t1">>>>, <<ContentP, "goal", <<"t2">>>>}

\* UnifiedMemoryIndex.add_entry called by a client; last.result[1] is the
\* index as the call found it
add_entry_call(content, memory_type, tags, max_calls) ==
    /\ calls.other < max_calls
    /\ last.op # "add"
    /\ LET entry == NewEntry(content, memory_type, "general", 60, tags, now)
       IN  /\ index' = add_entry(index, entry.id, entry)
           /\ last' = [op |-> "add", at |-> now, args |-> [entry |-> entry],
                       ret |-> entry.id, result |-> <<index>>, swept |-> NoRows]
    /\ calls' = [calls EXCEPT !.other = @ + 1]
    /\ UNCHANGED <<now, hot_memories, warm_memories, db, operation_count, file, threads>>

\* UnifiedMemoryIndex.remove_entry called with the id and the entry of the
\* add_entry call before it; last.result[1] stays the index before that call
remove_entry_call(max_calls) ==
    /\ calls.other < max_calls
    /\ last.op = "add"
    /\ index' = remove_entry(index, last.ret, last.args.entry)
    /\ last' = [last EXCEPT !.op = "remove", !.at = now]
    /\ calls' = [calls EXCEPT !.other = @ + 1]
    /\ UNCHANGED <<now, hot_memories, warm_memories, db, operation_count, file, threads>>

NextIndex ==
    \/ \E e \in {<<ContentA, "goal">>, <<ContentF, "event">>}, tags \in {<<>>, <<"t1">>} :
         /\ last.op # "add"
         /\ store_memory(e[1], e[2], "general", 60, tags, IndexMaxStores)
    \/ \E e \in IndexInputs : add_entry_call(e[1], e[2], e[3], IndexMaxCalls)
    \/ remove_entry_call(IndexMaxCalls)
    \/ Tick(1, MaxTicks)

SpecIndex == Init /\ [][NextIndex]_vars

\* the ids of the index ix
IdsIn(ix) == {ix.timestamp_index[k][2] : k \in DOMAIN ix.timestamp_index}

\* C34: when add_entry indexed an id that the index did not hold and
\* remove_entry is then called with that id and entry, every search gives
\* what it would have given before the add_entry call.
C34_AddRemoveNeutral ==
    (last.op = "remove" /\ last.ret \notin IdsIn(last.result[1])) =>
        \A query \in {<<>>, <<"a">>, <<"f">>},
           memory_types \in {{}, {"goal"}, {"event"}, {"goal", "event"}},
           categories \in {{}, {"general"}},
           tags \in {{}, {"t1"}, {"t2"}},
           max_results \in {1, 10} :
           search(index, query, memory_types, categories, tags, max_results)
             = search(last.result[1], query, memory_types, categories, tags, max_results)

\* an entry with a word and a tag given twice was added to an index that
\* held another entry, and removed again
C34_Witness ==
    /\ last.op = "remove"
    /\ last.ret \notin IdsIn(last.result[1])
    /\ IdsIn(last.result[1]) # {}
    /\ Len(last.args.entry.tags) = 2
    /\ Words(last.args.entry.content) # {}


----------------------------------------------------------------------------
(* Specification SpecMany: one type and category come to hold more        *)
(* entries than the 20 candidates the duplicate check asks the index for:   *)
(* 21 contents of one or two words, no two of them similar, are stored and  *)
(* then one of them is stored again.                                        *)

\* the contents stored: the six words, then the fifteen pairs of them
FillContents ==
    <<<<"a">>, <<"b">>, <<"c">>, <<"d">>, <<"e">>, <<"f">>,
      <<"a", "b">>, <<"a", "c">>, <<"a", "d">>, <<"a", "e">>, <<"a", "f">>,
      <<"b", "c">>, <<"b", "d">>, <<"b", "e">>, <<"b", "f">>, <<"c", "d">>,
      <<"c", "e">>, <<"c", "f">>, <<"d", "e">>, <<"d", "f">>, <<"e", "f">>>>

NextMany ==
    \/ /\ calls.store < Len(FillContents)
       /\ store_memory(FillContents[calls.store + 1], "goal", "general", 50, <<>>, ManyMaxStores)
    \/ /\ calls.store >= Len(FillContents)
       /\ \E k \in {1, 7, Len(FillContents)} :
            store_memory(FillContents[k], "goal", "general", 50, <<>>, ManyMaxStores)
    \/ Tick(1, MaxTicks)

SpecMany == Init /\ [][NextMany]_vars

\* the ids that resolve to an entry
StoredIds == {i \in DOMAIN db \cup Cached : Fetch(i) # NoEntry}

\* C35: no two distinct stored entries of the same type and category are
\* similar (Jaccard similarity of their word sets above 0.8), however many
\* entries the type and category already hold.
C35_NoSimilarPair ==
    \A i \in StoredIds, j \in StoredIds :
        (/\ i # j
         /\ Fetch(i).memory_type = Fetch(j).memory_type
         /\ Fetch(i).category = Fetch(j).category)
          => ~Similar(Words(Fetch(i).content), Words(Fetch(j).content))


----------------------------------------------------------------------------
(* Specification SpecLost: entries on their way down the tiers and out.    *)
(* Three conversation entries of low importance overflow the hot map, two  *)
(* goal entries overflow the warm map, a third goes to the cold tier at    *)
(* once, and the clock passes the retention time, so that a cleanup        *)
(* deletes rows.                                                           *)

\* the entries stored: (content, type, importance)
LostInputs ==
    {<<ContentA, "conversation", 20>>, <<ContentF, "conversation", 20>>,
     <<ContentP, "conversation", 20>>, <<ContentC, "goal", 20>>,
     <<ContentA, "goal", 50>>, <<ContentF, "goal", 50>>}

NextLost ==
    \/ \E e \in LostInputs :
         store_memory(e[1], e[2], "general", e[3], <<>>, LostMaxStores)
    \/ retrieve_memories(<<>>, {}, {}, {}, 1, 0, LostMaxRetrieves)
    \/ Tick(RetentionHours + 1, MaxTicks)

SpecLost == Init /\ [][NextLost]_vars

\* the row i of the table a cleanup found is one its DELETE takes: older
\* than 30 days, importance below 0.3, accessed less than twice
DeletedByPolicy(i) ==
    /\ StoreStep
    /\ last'.swept # NoRows
    /\ i \in DOMAIN last'.swept
    /\ last'.swept[i].timestamp < last'.at - RetentionHours
    /\ last'.swept[i].importance < DeleteImportance
    /\ last'.swept[i].frequency_accessed < DeleteFrequency

\* C36: no entry is lost silently. The id a creating store_memory returns
\* resolves to an entry and is indexed; an id that resolves to an entry
\* keeps doing so over every call unless the cleanup of that call deleted
\* its row under the age / importance / access rule; and an entry that
\* leaves the warm map for the cold tier stays resolvable, unless so
\* deleted, and indexed.
C36_NothingLost ==
    [][/\ CreateStep => (FetchAfter(last'.ret) # NoEntry /\ last'.ret \in IdsIn(index'))
       /\ \A i \in StoredIds : FetchAfter(i) = NoEntry => DeletedByPolicy(i)
       /\ \A i \in Keys(warm_memories) :
            ~HasKey(warm_memories', i)
              => /\ i \in IdsIn(index')
                 /\ ~DeletedByPolicy(i) =>
                      (FetchAfter(i) # NoEntry /\ FetchAfter(i).id = i)]_vars

\* a store_memory call ended with a cleanup that deleted the row of an
\* entry of the cold tier, while an entry that had been placed in the warm
\* map and was demoted to the cold tier is resolvable and indexed
C36_Witness ==
    /\ Swept
    /\ \E i \in DOMAIN last.swept : i \notin DOMAIN db /\ Fetch(i) = NoEntry
    /\ \E j \in DOMAIN db :
         /\ j \notin Cached
         /\ db[j].storage_tier = "cold"
         /\ db[j].importance >= WarmImportance
         /\ j \in IndexedIds


----------------------------------------------------------------------------
\* C37: once a cleanup has deleted the row of an entry, _get_memory_by_id
\* returns no entry for its id (and so neither a retrieval nor the duplicate
\* check of a store finds it), whichever tier the entry was in.
C37_DeletedStaysGone ==
    Swept => \A i \in DOMAIN last.swept : i \notin DOMAIN db => Fetch(i) = NoEntry


----------------------------------------------------------------------------
\* C38: entries survive a restart. After the system is created again over
\* the same table, every well-formed row, of the hot, warm or cold tier, is
\* in the index again, so that a search reaches it and the duplicate check
\* of store_memory considers it.
C38_RestartReindexes ==
    [][RestartStep =>
         \A i \in DOMAIN db : _row_to_memory(db[i]) # RowError => i \in IdsIn(index')]_vars


----------------------------------------------------------------------------
\* the tiers from coldest to hottest
TierRank(tier) == CASE tier = "cold" -> 1 [] tier = "warm" -> 2 [] tier = "hot" -> 3

\* C39: tiers are left downward only. Over every call, an id that resolves
\* to an entry before and after it has a tier that is the same or colder,
\* a merge that raises the importance and a retrieval included; and no id
\* is a key of the hot map and of the warm map at once.
C39_TierOneWay ==
    [][/\ \A i \in StoredIds :
            FetchAfter(i) # NoEntry
              => TierRank(FetchAfter(i).storage_tier) <= TierRank(Fetch(i).storage_tier)
       /\ Keys(hot_memories') \cap Keys(warm_memories') = {}]_vars


----------------------------------------------------------------------------
\* thread t waits for a lock that another thread owns
Blocked(t) ==
    \/ Thread(t).pc = "lock" /\ ~Acquirable(threads.lock, t)
    \/ /\ Thread(t).pc \in IndexCalls
       /\ threads.index_lock # t
       /\ ~Acquirable(threads.index_lock, t)

\* C40: concurrent store_memory and retrieve_memories calls cannot deadlock.
\* The lock of the index is only owned by the thread that owns the lock of
\* the system (the system lock is taken first); a thread that waits for the
\* system lock owns no lock; a thread in _perform_cleanup owns no lock
\* besides the system lock; and whenever threads are inside calls, one of
\* them is not waiting for a lock.
C40_NoDeadlock ==
    /\ \A t \in Threads : threads.index_lock = t => threads.lock = t
    /\ \A t \in Threads :
         Thread(t).pc \in {"idle", "lock"} => (threads.lock # t /\ threads.index_lock # t)
    /\ \A t \in Threads : Thread(t).pc = "cleanup" => threads.index_lock = NoThread
    /\ ~Quiescent => \E t \in Threads : Thread(t).pc # "idle" /\ ~Blocked(t)

\* one thread waits for the lock of the system while the other owns it
\* and the lock of the index, inside add_entry
C40_Witness ==
    \E t1, t2 \in Threads :
        /\ Thread(t1).pc = "lock"
        /\ Blocked(t1)
        /\ Thread(t2).pc = "index"
        /\ threads.lock = t2
        /\ threads.index_lock = t2

====
